---- MODULE Spec2Model ----
(***************************************************************************)
(* Dioptase emulator: the shared bus (memory.rs), the multi-core           *)
(* scheduler, the interrupt controller, the TLB, the ALU and one core's     *)
(* instructions and exception machinery (emulator.rs), the SD card's DMA   *)
(* engine and the locks of the bus (memory.rs), and the debugger's         *)
(* watchpoints (debugger.rs), as state machines.                           *)
(*                                                                         *)
(* The specifications share the module's variables; each one moves only    *)
(* the variables of its own subsystem and leaves the others at their       *)
(* initial value:                                                          *)
(*   SpecBus        cores and the SD DMA engine accessing one aligned word *)
(*   SpecSched      run_core_loop threads under the Scheduler              *)
(*   FairSpecSched  the same with every thread scheduled fairly            *)
(*   SpecIntr       core ticks against the InterruptController             *)
(*   SpecDev        device interrupt bits polled and routed by core ticks  *)
(*   SpecTlb        tlbw / tlbi / tlbc and translated memory accesses      *)
(*   SpecAlu        alu_op and get_branch_condition on 32-bit words        *)
(*   SpecCpu        one core's ticks: exceptions, rfe, sleep, TLB misses   *)
(*   SpecIsa        one core's ticks: registers, undefined and privileged  *)
(*                  instructions in kernel and user mode                   *)
(*   SpecSd         bus reads and writes of RAM and the SD DMA registers,  *)
(*                  and tick_sd_dma                                        *)
(*   SpecWatch      the debugger's watch and unwatch commands              *)
(*   SpecBoot       cores as from_shared builds them, interrupts and IPIs  *)
(*   SpecShift      alu_op for lsl, lsr and asr with every shift amount    *)
(*   SpecAlign      halfword, word and atomic accesses at every alignment  *)
(*   SpecDma        one SD transfer from START to completion, with         *)
(*                  register writes in flight                              *)
(*   FairSpecDma    the same with a device thread that keeps ticking       *)
(*   SpecLock       two cores and a device thread calling Memory, one      *)
(*                  lock acquisition or guard drop at a time               *)
(*   FairSpecLock   the same with every thread running on                  *)
(***************************************************************************)
EXTENDS Integers, Sequences, FiniteSets, TLC

(***************************************************************************)
(* Bounds of the model.                                                    *)
(***************************************************************************)
\* Bus calls made on the probed word, over all threads.
MaxBusCalls == 3
\* Largest number of cores run_multicore is started with (--cores).
MaxCores == 2
\* Largest --max-cycles value tried (0, no limit, is always tried).
MaxIters == 1
\* Ticks started in the interrupt model, over all cores.
MaxTicks == 4
\* ipi instructions with a target in range, over all cores.
MaxSends == 2
\* Times a device raises an interrupt bit.
MaxDevRaises == 2
\* Device polls (check_interrupts calls) started, over all cores.
MaxDevTicks == 2
\* Ticks of the core model.
MaxCpuTicks == 3
\* Bus calls and device ticks of the SD DMA model.
MaxSdOps == 4
\* Commands given to the debugger.
MaxWatchOps == 4
\* Register words written to one SD engine while it is followed.
MaxDmaWrites == 4
\* Calls into Memory in the lock model, over all threads.
MaxLockCalls == 4

VARIABLES
  \* ---- bus (memory.rs) ----
  ram,        \* the four bytes of one 4-aligned RAM word, offset 0..3 -> byte
  ramLock,    \* holder of Memory.ram's mutex, or NoThread
  busOp,      \* per thread: the bus call in progress
  busDone,    \* per thread: bus calls completed
  wordHist,   \* history: the word's content after every completed write
  opLog,      \* history: the completed calls with what they returned
  \* ---- scheduler and run loop (emulator.rs) ----
  mode,       \* Scheduler.mode / the --sched option
  cores,      \* Scheduler.cores
  max_iters,  \* run_core_loop's max_iters
  next_core,  \* SchedulerState.next_core
  halted,     \* SchedulerState.halted
  done,       \* SchedulerState.done
  stop,       \* RunShared.stop
  cpuHalted,  \* per core: Emulator.halted
  count,      \* per core: Emulator.count, capped above max_iters
  spc,        \* per core thread: its place in run_core_loop
  waiters,    \* threads parked in Scheduler.cv.wait and not yet notified
  turnLog,    \* history: cores granted a turn since `halted` last changed
  \* ---- interrupt controller and core ticks (emulator.rs) ----
  pending,     \* InterruptController.pending, per core: a set of bit numbers
  ipi_payload, \* InterruptController.ipi_payload, per core
  routes,      \* InterruptRouteState: next_kb, next_uart, kb/uart_inflight
  use_uart_rx, \* Emulator.use_uart_rx, the same for every core
  isr,         \* per core: cregfile[2]
  mbi,         \* per core: cregfile[10]
  ipc,         \* per core: its place in tick()
  taken,       \* per core: check_for_interrupts' local `pending`
  ipiOp,       \* per core: the send_ipi call in progress
  ticks,       \* ticks started, over all cores
  sendsIssued, \* send_ipi calls with a target in range, over all cores
  setSince,    \* history, per core: bits set since the last take_pending
  takeLog,     \* history, per core: what the last take_pending returned
  storeLog,    \* history, per core: the sends that stored into its slot
  bitFrom,     \* history, per core: sends whose IPI bit awaits a take
  delivery,    \* history, per core: its last IPI delivery
  inputHeld,   \* history, per core: a raised input interrupt is in its ISR
  \* ---- device interrupts (memory.rs, graphics.rs, emulator.rs) ----
  pending_interrupt, \* Memory.pending_interrupt, as a set of bit numbers
  dpc,         \* per core: its place in the device part of the tick
  ints,        \* per core: check_interrupts' local `pending`
  devRaises,   \* device raise events so far
  devTicks,    \* device polls started, over all cores
  unreturned,  \* history: bits raised and not yet returned by a poll
  lostBits,    \* history: bits cleared by a poll that did not return them
  twiceBits,   \* history: bits returned a second time with no raise between
  lastDispatch, \* history: the last dispatch_device_interrupts call
  \* ---- TLB and address translation (emulator.rs) ----
  private_table, \* RandomCache.private_table: <<pid, vpn>> -> payload
  private_size,  \* RandomCache.private_size
  global_table,  \* RandomCache.global_table: vpn -> payload
  global_size,   \* RandomCache.global_size
  tlbPanic,      \* an assert! or expect of RandomCache has failed
  lastMem,       \* history: the last fetch, load, store or atomic
  \* ---- one core's exception state (emulator.rs) ----
  pc,          \* Emulator.pc
  kmode,       \* Emulator.kmode
  cregfile,    \* Emulator.cregfile; ISR and IMR as sets of bit numbers
  asleep,      \* Emulator.asleep
  sleep_armed, \* Emulator.sleep_armed
  regfile,     \* Emulator.regfile, the registers r0, r1, r2 and r31
  cmem,        \* the bytes of physical memory stored to so far
  cpuPanic,    \* an assert! of the core has failed
  cpuTicks,    \* ticks made
  lastTick,    \* history: the last tick, before, between and what ran
  lastEntry,   \* history: the last exception entry
  slept,       \* history: Some(P) while asleep after mode sleep at P
  coreHalted,  \* Emulator.halted
  ipiLog,      \* the send_ipi / send_ipi_all calls the core has made
  \* ---- the ALU on full 32-bit words (emulator.rs) ----
  alu,         \* one alu_op: its operands and, once run, what it left
  \* ---- one SD DMA engine behind the bus (memory.rs) ----
  sd,          \* the SdCard: registers, cursors and remaining count
  sdRam,       \* Memory.ram at the addresses of the model
  sdStorage,   \* SdCard.storage, byte offset -> byte
  sdIrq,       \* the engine's bit of Memory.pending_interrupt
  sdOps,       \* bus writes and device ticks made
  sdLast,      \* history: the last bus write with the read that followed
  \* ---- the debugger's watchpoint list (emulator/debugger.rs) ----
  watchpoints, \* the Vec<Watchpoint> of the debugger's command loop
  watchOps,    \* watch and unwatch commands made
  watchLast,   \* history: the last command, the list before it, its result
  \* ---- SD DMA transfers and the locks of the bus (memory.rs) ----
  xfer,        \* history: the transfer launched by the last accepted START
  thr,         \* per thread, the call of Memory it is in and how far
  locks,       \* Memory's locks: the writer and the readers of each
  seen,        \* history: what the last read of STATUS found
  pitState     \* the PIT's reload register and Memory's pit_countdown

busVars == <<ram, ramLock, busOp, busDone, wordHist, opLog>>
schedVars == <<mode, cores, max_iters, next_core, halted, done, stop,
               cpuHalted, count, spc, waiters, turnLog>>
intrVars == <<pending, ipi_payload, routes, use_uart_rx, isr, mbi, ipc,
              taken, ipiOp, ticks, sendsIssued, setSince, takeLog, storeLog,
              bitFrom, delivery, inputHeld>>
devVars == <<pending_interrupt, dpc, ints, devRaises, devTicks, unreturned,
             lostBits, twiceBits, lastDispatch>>
tlbVars == <<private_table, private_size, global_table, global_size,
             tlbPanic, lastMem>>
cpuVars == <<pc, kmode, cregfile, asleep, sleep_armed, regfile, cmem,
             cpuPanic, cpuTicks, lastTick, lastEntry, slept, coreHalted,
             ipiLog>>
aluVars == <<alu>>
sdVars == <<sd, sdRam, sdStorage, sdIrq, sdOps, sdLast>>
watchVars == <<watchpoints, watchOps, watchLast>>
dmaVars == <<xfer, thr, locks, seen, pitState>>
vars == <<busVars, schedVars, intrVars, devVars, tlbVars, cpuVars, aluVars,
          sdVars, watchVars, dmaVars>>

(***************************************************************************)
(* The interrupt controller at rest: InterruptController::new and the      *)
(* control registers of freshly built cores.                               *)
(***************************************************************************)
\* The cores of the interrupt model (InterruptController.cores of them).
IntrCores == {0, 1}

\* Interrupt bits, as sets of bit numbers of a 32-bit word.
KB_INTERRUPT_BIT == {1}
UART_INTERRUPT_BIT == {2}
IPI_INTERRUPT_BIT == {5}

\* Option<usize>: None is {}, Some(c) is {c}.
NoCore == {}
Some(c) == {c}

NoSend == [target |-> 0, value |-> 0, step |-> 0]
NoDelivery == [took |-> {}, val |-> 0, stores |-> 0, isr5 |-> FALSE,
               done |-> FALSE]

InterruptControllerNew ==
  /\ pending = [c \in IntrCores |-> {}]
  /\ ipi_payload = [c \in IntrCores |-> 0]
  /\ routes = [next_kb |-> 0, next_uart |-> 0, next_sd |-> 0,
               next_vga |-> 0,
               kb_inflight |-> NoCore, uart_inflight |-> NoCore]
  /\ isr = [c \in IntrCores |-> {}]
  /\ mbi = [c \in IntrCores |-> 0]
  /\ ipc = [c \in IntrCores |-> "check"]
  /\ taken = [c \in IntrCores |-> {}]
  /\ ipiOp = [c \in IntrCores |-> NoSend]
  /\ ticks = 0
  /\ sendsIssued = 0
  /\ setSince = [c \in IntrCores |-> {}]
  /\ takeLog = [c \in IntrCores |-> [got |-> {}, owed |-> {}]]
  /\ storeLog = [c \in IntrCores |-> <<>>]
  /\ bitFrom = [c \in IntrCores |-> {}]
  /\ delivery = [c \in IntrCores |-> NoDelivery]
  /\ inputHeld = [c \in IntrCores |-> FALSE]

ParkedIntr == InterruptControllerNew /\ use_uart_rx = FALSE

\* Device interrupt bits (memory.rs), as sets of bit numbers.
SD_INTERRUPT_BIT == {3}
VGA_INTERRUPT_BIT == {4}
SD2_INTERRUPT_BIT == {6}

DeviceBits == SD_INTERRUPT_BIT \cup VGA_INTERRUPT_BIT \cup SD2_INTERRUPT_BIT

NoDispatch == [word |-> {}, targets |-> [b \in DeviceBits |-> {}]]

\* Memory::new: no device interrupt pending; no core is polling.
ParkedDev ==
  /\ pending_interrupt = {}
  /\ dpc = [c \in IntrCores |-> "poll"]
  /\ ints = [c \in IntrCores |-> {}]
  /\ devRaises = 0
  /\ devTicks = 0
  /\ unreturned = {}
  /\ lostBits = {}
  /\ twiceBits = {}
  /\ lastDispatch = NoDispatch

\* HashMap::new(): the table with no key.
EmptyTable == [k \in {} |-> 0]

NoMem == [kmode |-> TRUE, pid |-> 0, kind |-> "none", vaddr |-> 0,
          phys |-> <<>>, miss |-> FALSE, vector |-> 0]

\* RandomCache::new: both tables empty; no memory access made yet.
ParkedTlb ==
  /\ private_table = EmptyTable
  /\ private_size = 0
  /\ global_table = EmptyTable
  /\ global_size = 0
  /\ tlbPanic = FALSE
  /\ lastMem = NoMem

\* No tlb instruction in this tick.
NoTlbOp == [op |-> "none", pid |-> 0, vpn |-> 0, v |-> 0]

NoInstr == [op |-> "none", x |-> 0, y |-> 0, a |-> 0]
NoEntry == [kind |-> "none", pcBefore |-> 0, wasSleep |-> FALSE, epc |-> 0,
            psrBefore |-> 0, r31Before |-> 0, rawR31 |-> FALSE]

\* Emulator::from_shared for core 0: kernel mode, PSR = 1, pc = 0x400,
\* awake, every other register 0.
EmulatorNew ==
  [pc |-> 1024, kmode |-> TRUE,
   cregfile |-> [i \in 0..11 |-> IF i = 0 THEN 1
                                 ELSE IF i \in {2, 3} THEN {} ELSE 0],
   asleep |-> FALSE, sleep_armed |-> FALSE,
   regfile |-> [r \in {0, 1, 2, 31} |-> 0], mem |-> EmptyTable,
   panic |-> FALSE, halted |-> FALSE, sent |-> <<>>, tlbop |-> NoTlbOp]

NoTick == [pre |-> EmulatorNew, mid |-> EmulatorNew, delivered |-> FALSE,
           ran |-> FALSE, instr |-> NoInstr, trap |-> "none",
           miss |-> "none", missAddr |-> 0, returned |-> FALSE,
           ret |-> NoEntry, ipi |-> {}]

ParkedCpu ==
  /\ pc = EmulatorNew.pc
  /\ kmode = EmulatorNew.kmode
  /\ cregfile = EmulatorNew.cregfile
  /\ asleep = EmulatorNew.asleep
  /\ sleep_armed = EmulatorNew.sleep_armed
  /\ regfile = EmulatorNew.regfile
  /\ cmem = EmulatorNew.mem
  /\ cpuPanic = FALSE
  /\ cpuTicks = 0
  /\ lastTick = NoTick
  /\ lastEntry = NoEntry
  /\ slept = {}
  /\ coreHalted = EmulatorNew.halted
  /\ ipiLog = EmulatorNew.sent

\* No alu_op yet.
NoAlu == [ran |-> FALSE, flg |-> 0, op |-> 0, imm |-> FALSE, r_b |-> <<0, 0>>,
          c |-> <<0, 0>>, status |-> "none", result |-> <<0, 0>>,
          flgAfter |-> 0]

ParkedAlu == alu = NoAlu

\* SdCard::new
SdCardNew ==
  [dma_mem_addr |-> 0, dma_sd_block |-> 0, dma_len |-> 0, dma_ctrl |-> 0,
   dma_status |-> 0, dma_err |-> 0, dma_active |-> FALSE,
   dma_mem_cursor |-> 0, dma_sd_byte_cursor |-> 0, dma_remaining |-> 0,
   dma_ticks_per_word |-> 1, dma_tick_countdown |-> 0]

NoSdCall == [kind |-> "none", addr |-> 0, data |-> <<>>]
NoSdOp == [kind |-> "none", addr |-> 0, data |-> <<>>, readBack |-> <<>>,
           after |-> NoSdCall]

\* Memory::new: the engine idle, RAM and storage empty, nothing pending.
ParkedSd ==
  /\ sd = SdCardNew
  /\ sdRam = EmptyTable
  /\ sdStorage = EmptyTable
  /\ sdIrq = FALSE
  /\ sdOps = 0
  /\ sdLast = NoSdOp

NoWatchOp == [op |-> "none", addr |-> 0, kind |-> "Read", before |-> <<>>,
              ret |-> "none"]

\* let mut watchpoints: Vec<Watchpoint> = Vec::new();
ParkedWatch ==
  /\ watchpoints = <<>>
  /\ watchOps = 0
  /\ watchLast = NoWatchOp

\* No accepted START yet.
NoXfer == [phase |-> "idle", starts |-> 0, len |-> 0, mem |-> 0, off |-> 0,
           dir |-> FALSE, irq |-> FALSE, ticks |-> 0, moves |-> <<>>,
           touched |-> {}, irqBefore |-> FALSE, irqAfter |-> FALSE,
           statusAtEnd |-> 0, lateMoves |-> FALSE]

LockThreads == {"core0", "core1", "dev"}
LockNames == {"pit_countdown", "ram", "sd_card", "pit", "pending_interrupt"}
NoLocals == [addr |-> 0, data |-> 0, mem_addr |-> 0, sd_offset |-> 0,
             bytes |-> 0, dir_ram_to_sd |-> FALSE, done_after |-> FALSE,
             irq_enable |-> FALSE, buf |-> <<>>]
NoCall == [op |-> "idle", plan |-> <<>>, loc |-> NoLocals]
NoSeen == [by |-> "none", status |-> 0, launched |-> FALSE,
           dir |-> FALSE, landed |-> TRUE, source |-> <<>>, loaded |-> <<>>]

\* Memory::new: no transfer, every thread outside Memory, every lock free.
ParkedDma ==
  /\ xfer = NoXfer
  /\ thr = [t \in LockThreads |-> NoCall]
  /\ locks = [l \in LockNames |-> [w |-> "none", r |-> {}]]
  /\ seen = NoSeen
  /\ pitState = [reload |-> 0, countdown |-> 0]

(***************************************************************************)
(* 32-bit words.  A u32 is kept as two 16-bit halves so that every         *)
(* intermediate value stays inside the model checker's integers while the  *)
(* arithmetic is exactly arithmetic modulo 2^32.                           *)
(***************************************************************************)
U32(h, l) == [hi |-> h, lo |-> l]

\* u32::wrapping_add
WrappingAdd(a, b) ==
  LET l == a.lo + b.lo
      h == a.hi + b.hi + (l \div 65536)
  IN  U32(h % 65536, l % 65536)

\* (b3 << 24) | (b2 << 16) | (b1 << 8) | b0 over the bytes at addr..addr+3
ReadU32Internal(b) == U32(b[3] + 256 * b[4], b[1] + 256 * b[2])

\* data as u8, (data >> 8) as u8, (data >> 16) as u8, (data >> 24) as u8
WriteU32Internal(v) == <<v.lo % 256, v.lo \div 256, v.hi % 256, v.hi \div 256>>

\* The word the four RAM bytes r hold.
WordOf(r) == ReadU32Internal(<<r[0], r[1], r[2], r[3]>>)

(***************************************************************************)
(* The bus.  Threads are two cores and the thread that ticks the SD DMA    *)
(* engine.  Every call takes Memory.ram's mutex once and holds the guard   *)
(* until it returns; a call is a sequence of byte accesses under it.       *)
(***************************************************************************)
BusCores == {"core0", "core1"}
DmaThread == "dma"
BusThreads == BusCores \cup {DmaThread}
NoThread == "none"

\* Content of the probed word in the program image: 0xFFFFFFFE, so that
\* every fetch-add wraps.
InitWords == {U32(65535, 65534)}

\* The operand of a thread's n-th call (register value, or SD storage word).
BusValue(t, n) ==
  CASE t = "core0" -> U32(258, 772 + n)
    [] t = "core1" -> U32(4370, 4884 + n)
    [] OTHER       -> U32(8482, 8996 + n)

BusKinds(t) ==
  IF t = DmaThread THEN {"dma"} ELSE {"swap", "add", "load", "store"}

\* i: byte accesses done; buf: bytes read; issued: calls completed by all
\* threads when this one was issued; h0, wr: length of wordHist when the
\* guard was first taken and when the call's last byte was written.
IdleOp == [kind |-> "idle", width |-> 0, off |-> 0, val |-> U32(0, 0),
           i |-> 0, buf |-> <<>>, issued |-> 0, h0 |-> 0, wr |-> 0]

\* Byte offsets a call reads, in order.
OpReads(op) ==
  CASE op.kind \in {"swap", "add"} -> <<0, 1, 2, 3>>
    [] op.kind = "load" -> [k \in 1..op.width |-> op.off + k - 1]
    [] OTHER -> <<>>

\* Byte offsets a call writes, in order.
OpWrites(op) ==
  CASE op.kind \in {"swap", "add", "dma"} -> <<0, 1, 2, 3>>
    [] op.kind = "store" -> [k \in 1..op.width |-> op.off + k - 1]
    [] OTHER -> <<>>

OpSteps(op) == Len(OpReads(op)) + Len(OpWrites(op))

\* Memory::atomic_add_u32: next = wrapping_add(prev, value)
AtomicAddNext(prev, value) == WrappingAdd(prev, value)

\* Memory::atomic_swap_u32: the word written is the operand
AtomicSwapNext(prev, value) == value

\* The bytes a call writes, given the bytes it has read.
OpData(op) ==
  CASE op.kind = "add" ->
         WriteU32Internal(AtomicAddNext(ReadU32Internal(op.buf), op.val))
    [] op.kind = "swap" ->
         WriteU32Internal(AtomicSwapNext(ReadU32Internal(op.buf), op.val))
    [] OTHER -> WriteU32Internal(op.val)

\* Where the mutex guard of a call is dropped: "call" when the guard lives
\* for the whole call (let mut ram = self.ram.lock() at the top of each of
\* read_phys_bytes, write_phys_bytes, atomic_swap_u32, atomic_add_u32 and
\* the RAM side of tick_sd_dma_device).
GuardScopePhase(kind) == "phase"
GuardScopeAccess(kind) == "access"
GuardScope(kind) == "call"

\* Whether the guard is dropped after the i-th byte access of op.
DropsGuardAfter(op, i) ==
  CASE GuardScope(op.kind) = "access" -> i < OpSteps(op)
    [] GuardScope(op.kind) = "phase" ->
         i = Len(OpReads(op)) /\ i < OpSteps(op)
    [] OTHER -> FALSE

\* The scheduler's variables while another subsystem is examined.
ParkedSched ==
  /\ mode = "Free" /\ cores = 1 /\ max_iters = 0 /\ next_core = 0
  /\ halted = <<>> /\ done = FALSE /\ stop = FALSE /\ cpuHalted = <<>>
  /\ count = <<>> /\ spc = <<>> /\ waiters = {} /\ turnLog = <<>>

\* Calls issued so far: the completed ones and the ones in progress.
CallsIssued ==
  Len(opLog) + Cardinality({t \in BusThreads : busOp[t].kind # "idle"})

InitBus ==
  /\ ParkedSched
  /\ ParkedIntr
  /\ ParkedDev
  /\ ParkedTlb
  /\ ParkedCpu
  /\ ParkedAlu
  /\ ParkedSd
  /\ ParkedWatch
  /\ ParkedDma
  /\ ram \in {[k \in 0..3 |-> WriteU32Internal(w)[k + 1]] : w \in InitWords}
  /\ ramLock = NoThread
  /\ busOp = [t \in BusThreads |-> IdleOp]
  /\ busDone = [t \in BusThreads |-> 0]
  /\ wordHist = <<WordOf(ram)>>
  /\ opLog = <<>>

\* A thread issues a call: atomic swap / fetch-add of the word, a 16- or
\* 32-bit load or store at an aligned offset, or a DMA word write.
BusBegin(t) ==
  /\ busOp[t].kind = "idle"
  /\ CallsIssued < MaxBusCalls
  /\ \E kind \in BusKinds(t), width \in {2, 4}, off \in {0} :
       /\ kind \in {"swap", "add", "dma"} => width = 4
       /\ busOp' = [busOp EXCEPT ![t] =
            [kind |-> kind, width |-> width, off |-> off,
             val |-> BusValue(t, busDone[t]), i |-> 0, buf |-> <<>>,
             issued |-> Len(opLog), h0 |-> 0, wr |-> 0]]
  /\ UNCHANGED <<ram, ramLock, busDone, wordHist, opLog, schedVars, intrVars,
                 devVars, tlbVars, cpuVars, aluVars,
                 sdVars, watchVars, dmaVars>>

\* self.ram.lock(): blocks while another thread holds the mutex.
BusAcquire(t) ==
  /\ busOp[t].kind # "idle"
  /\ busOp[t].i < OpSteps(busOp[t])
  /\ ramLock = NoThread
  /\ ramLock' = t
  /\ busOp' = [busOp EXCEPT ![t].h0 =
                 IF busOp[t].i = 0 THEN Len(wordHist) ELSE @]
  /\ UNCHANGED <<ram, busDone, wordHist, opLog, schedVars, intrVars, devVars,
                 tlbVars, cpuVars, aluVars,
                 sdVars, watchVars, dmaVars>>

\* One read_internal / write_internal under the guard.
BusAccess(t) ==
  LET op == busOp[t]
      i  == op.i + 1
      nr == Len(OpReads(op))
  IN  /\ op.kind # "idle"
      /\ ramLock = t
      /\ op.i < OpSteps(op)
      /\ IF i <= nr
           THEN /\ busOp' = [busOp EXCEPT ![t].i = i,
                               ![t].buf = Append(op.buf, ram[OpReads(op)[i]])]
                /\ UNCHANGED <<ram, wordHist>>
           ELSE /\ ram' = [ram EXCEPT ![OpWrites(op)[i - nr]] =
                             OpData(op)[OpWrites(op)[i - nr] - op.off + 1]]
                /\ wordHist' = IF i = OpSteps(op)
                                 THEN Append(wordHist, WordOf(ram'))
                                 ELSE wordHist
                /\ busOp' = [busOp EXCEPT ![t].i = i,
                               ![t].wr = IF i = OpSteps(op)
                                           THEN Len(wordHist') ELSE @]
      /\ ramLock' = IF DropsGuardAfter(op, i) THEN NoThread ELSE t
      /\ UNCHANGED <<busDone, opLog, schedVars, intrVars, devVars, tlbVars,
                     cpuVars, aluVars,
                 sdVars, watchVars, dmaVars>>

\* The call returns: the guard is dropped and the result handed back.
BusFinish(t) ==
  LET op == busOp[t] IN
  /\ op.kind # "idle"
  /\ op.i = OpSteps(op)
  /\ ramLock = t
  /\ ramLock' = NoThread
  /\ opLog' = Append(opLog,
       [t |-> t, kind |-> op.kind, width |-> op.width, off |-> op.off,
        val |-> op.val, ret |-> op.buf, issued |-> op.issued,
        h0 |-> op.h0, wr |-> op.wr, h1 |-> Len(wordHist)])
  /\ busOp' = [busOp EXCEPT ![t] = IdleOp]
  /\ busDone' = [busDone EXCEPT ![t] = @ + 1]
  /\ UNCHANGED <<ram, wordHist, schedVars, intrVars, devVars, tlbVars,
                 cpuVars, aluVars,
                 sdVars, watchVars, dmaVars>>

NextBus ==
  \E t \in BusThreads :
    \/ BusBegin(t)
    \/ BusAcquire(t)
    \/ BusAccess(t)
    \/ BusFinish(t)

SpecBus == InitBus /\ [][NextBus]_vars

(***************************************************************************)
(* The scheduler and run_core_loop.  One thread per core; in RoundRobin    *)
(* and Random mode a thread runs a tick only between wait_turn and its     *)
(* finish_turn; in Free mode there is no Scheduler at all (run_multicore   *)
(* passes None) and only RunShared.stop ends the other threads.            *)
(***************************************************************************)
Modes == {"Free", "RoundRobin", "Random"}
CoreIds == 0..(cores - 1)
HasScheduler == mode # "Free"

ParkedBus ==
  /\ ram = [k \in 0..3 |-> 0] /\ ramLock = NoThread
  /\ busOp = [t \in BusThreads |-> IdleOp]
  /\ busDone = [t \in BusThreads |-> 0]
  /\ wordHist = <<>> /\ opLog = <<>>

MinOf(S) == CHOOSE x \in S : \A y \in S : x <= y

\* choose_random_core: the seed comes from the wall clock, so the target
\* index next_rand_u32(seed) % active is any of the non-halted cores.
ChooseRandomCore(h) == {i \in DOMAIN h : ~h[i]}

\* pick_next_core, RoundRobin arm: for offset in 1..=cores, the first
\* (current + offset) % cores that is not halted.
RoundRobinOffsetsFromZero(n) == 0..(n - 1)
RoundRobinOffsets(n) == 1..n

\* pick_next_core: the candidates for the next core; {} stands for None.
PickNextCore(m, n, current, h) ==
  CASE m = "Random" -> ChooseRandomCore(h)
    [] m = "RoundRobin" ->
         LET offs == {o \in RoundRobinOffsets(n) : ~h[(current + o) % n]}
         IN  IF offs = {} THEN {} ELSE {(current + MinOf(offs)) % n}
    [] OTHER ->
         LET live == {i \in DOMAIN h : ~h[i]}
         IN  IF live = {} THEN {} ELSE {MinOf(live)}

\* wait_turn's test: if state.next_core == core_id { return true; }
TurnIsAnyones(c) == TRUE
TurnIsMine(c) == next_core = c

\* Condvar::notify_all: nobody stays parked.
NotifyNobody(w) == w
NotifyAll(w) == {}

\* Scheduler::new: next_core is 0, or a random core in Random mode.
InitSched ==
  /\ ParkedBus
  /\ ParkedIntr
  /\ ParkedDev
  /\ ParkedTlb
  /\ ParkedCpu
  /\ ParkedAlu
  /\ ParkedSd
  /\ ParkedWatch
  /\ ParkedDma
  /\ mode \in Modes
  /\ cores \in 1..MaxCores
  /\ max_iters \in {0, MaxIters}
  /\ next_core \in (IF mode = "Random" THEN CoreIds ELSE {0})
  /\ halted = [c \in CoreIds |-> FALSE]
  /\ done = FALSE
  /\ stop = FALSE
  /\ cpuHalted = [c \in CoreIds |-> FALSE]
  /\ count = [c \in CoreIds |-> 0]
  /\ spc = [c \in CoreIds |-> "top"]
  /\ waiters = {}
  /\ turnLog = <<>>

Goto(c, l) == spc' = [spc EXCEPT ![c] = l]

\* The last `cores` grants.
Logged(c) ==
  IF Len(turnLog) < cores THEN Append(turnLog, c)
  ELSE Append(Tail(turnLog), c)

\* Top of the loop: if shared.should_stop() { sched.stop(); break; }
LoopTop(c) ==
  /\ c \in CoreIds
  /\ spc[c] = "top"
  /\ Goto(c, IF stop THEN (IF HasScheduler THEN "stop_top" ELSE "exit")
             ELSE (IF HasScheduler THEN "wait" ELSE "check"))
  /\ UNCHANGED <<mode, cores, max_iters, next_core, halted, done, stop,
                 cpuHalted, count, waiters, turnLog, busVars, intrVars,
                 devVars, tlbVars, cpuVars, aluVars,
                 sdVars, watchVars, dmaVars>>

\* Scheduler::wait_turn, one pass of its loop under the state mutex.
WaitTurn(c) ==
  /\ c \in CoreIds
  /\ spc[c] = "wait"
  /\ IF done \/ halted[c]
       THEN Goto(c, "exit") /\ UNCHANGED <<waiters, turnLog>>
       ELSE IF TurnIsMine(c)
         THEN Goto(c, "check") /\ turnLog' = Logged(c) /\ UNCHANGED waiters
         ELSE /\ Goto(c, "parked")
              /\ waiters' = waiters \cup {c}
              /\ UNCHANGED turnLog
  /\ UNCHANGED <<mode, cores, max_iters, next_core, halted, done, stop,
                 cpuHalted, count, busVars, intrVars, devVars, tlbVars,
                 cpuVars, aluVars,
                 sdVars, watchVars, dmaVars>>

\* cv.wait returns once the thread has been notified.
Wakeup(c) ==
  /\ c \in CoreIds
  /\ spc[c] = "parked"
  /\ c \notin waiters
  /\ Goto(c, "wait")
  /\ UNCHANGED <<mode, cores, max_iters, next_core, halted, done, stop,
                 cpuHalted, count, waiters, turnLog, busVars, intrVars,
                 devVars, tlbVars, cpuVars, aluVars,
                 sdVars, watchVars, dmaVars>>

\* After wait_turn: the second should_stop test, and the halted test
\* that precedes the tick.
LoopCheck(c) ==
  /\ c \in CoreIds
  /\ spc[c] = "check"
  /\ IF stop
       THEN /\ Goto(c, IF HasScheduler THEN "stop_turn" ELSE "exit")
            /\ UNCHANGED stop
     ELSE IF cpuHalted[c]
       THEN /\ stop' = TRUE
            /\ Goto(c, IF HasScheduler THEN "mark" ELSE "exit")
       ELSE Goto(c, "tick") /\ UNCHANGED stop
  /\ UNCHANGED <<mode, cores, max_iters, next_core, halted, done,
                 cpuHalted, count, waiters, turnLog, busVars, intrVars,
                 devVars, tlbVars, cpuVars, aluVars,
                 sdVars, watchVars, dmaVars>>

\* cpu.tick(): one tick, in which the core may execute mode halt.
Tick(c) ==
  /\ c \in CoreIds
  /\ spc[c] = "tick"
  /\ \E h \in BOOLEAN : cpuHalted' = [cpuHalted EXCEPT ![c] = h]
  /\ count' = [count EXCEPT ![c] = IF @ <= max_iters THEN @ + 1 ELSE @]
  /\ Goto(c, "after")
  /\ UNCHANGED <<mode, cores, max_iters, next_core, halted, done, stop,
                 waiters, turnLog, busVars, intrVars, devVars, tlbVars,
                 cpuVars, aluVars,
                 sdVars, watchVars, dmaVars>>

\* After the tick: a halted core or an exceeded max_iters requests the
\* stop of all cores (shared.request_stop()); otherwise the turn ends.
AfterTick(c) ==
  /\ c \in CoreIds
  /\ spc[c] = "after"
  /\ IF cpuHalted[c]
       THEN /\ stop' = TRUE
            /\ Goto(c, IF HasScheduler THEN "mark" ELSE "exit")
       ELSE IF max_iters # 0 /\ count[c] > max_iters
         THEN /\ stop' = TRUE
              /\ Goto(c, IF HasScheduler THEN "stop_turn" ELSE "exit")
         ELSE /\ UNCHANGED stop
              /\ Goto(c, IF HasScheduler THEN "finish" ELSE "top")
  /\ UNCHANGED <<mode, cores, max_iters, next_core, halted, done,
                 cpuHalted, count, waiters, turnLog, busVars, intrVars,
                 devVars, tlbVars, cpuVars, aluVars,
                 sdVars, watchVars, dmaVars>>

\* Scheduler::mark_halted
MarkHalted(c) ==
  /\ c \in CoreIds
  /\ spc[c] = "mark"
  /\ LET h == [halted EXCEPT ![c] = TRUE]
         cands == PickNextCore(mode, cores, next_core, h)
     IN  /\ halted' = h
         /\ IF \A i \in CoreIds : h[i]
              THEN done' = TRUE /\ UNCHANGED next_core
              ELSE IF h[next_core]
                THEN IF cands = {}
                       THEN done' = TRUE /\ UNCHANGED next_core
                       ELSE next_core' \in cands /\ UNCHANGED done
                ELSE UNCHANGED <<done, next_core>>
  /\ waiters' = NotifyAll(waiters)
  /\ turnLog' = <<>>
  /\ Goto(c, "stop_halt")
  /\ UNCHANGED <<mode, cores, max_iters, stop, cpuHalted, count, busVars,
                 intrVars, devVars, tlbVars, cpuVars, aluVars,
                 sdVars, watchVars, dmaVars>>

\* Scheduler::stop, then break
Stop(c) ==
  /\ c \in CoreIds
  /\ spc[c] \in {"stop_top", "stop_turn", "stop_halt"}
  /\ done' = TRUE
  /\ waiters' = NotifyAll(waiters)
  /\ Goto(c, "exit")
  /\ UNCHANGED <<mode, cores, max_iters, next_core, halted, stop,
                 cpuHalted, count, turnLog, busVars, intrVars, devVars,
                 tlbVars, cpuVars, aluVars,
                 sdVars, watchVars, dmaVars>>

\* Scheduler::finish_turn
FinishTurn(c) ==
  /\ c \in CoreIds
  /\ spc[c] = "finish"
  /\ LET cands == PickNextCore(mode, cores, c, halted)
     IN  IF done THEN UNCHANGED <<done, next_core>>
         ELSE IF cands = {}
           THEN done' = TRUE /\ UNCHANGED next_core
           ELSE next_core' \in cands /\ UNCHANGED done
  /\ waiters' = NotifyAll(waiters)
  /\ Goto(c, "top")
  /\ UNCHANGED <<mode, cores, max_iters, halted, stop, cpuHalted, count,
                 turnLog, busVars, intrVars, devVars, tlbVars, cpuVars, aluVars,
                 sdVars, watchVars, dmaVars>>

\* shared.record_exit: the thread has left the loop.
RecordExit(c) ==
  /\ c \in CoreIds
  /\ spc[c] = "exit"
  /\ Goto(c, "exited")
  /\ UNCHANGED <<mode, cores, max_iters, next_core, halted, done, stop,
                 cpuHalted, count, waiters, turnLog, busVars, intrVars,
                 devVars, tlbVars, cpuVars, aluVars,
                 sdVars, watchVars, dmaVars>>

NextSched ==
  \E c \in 0..(MaxCores - 1) :
    \/ LoopTop(c)
    \/ WaitTurn(c)
    \/ Wakeup(c)
    \/ LoopCheck(c)
    \/ Tick(c)
    \/ AfterTick(c)
    \/ MarkHalted(c)
    \/ Stop(c)
    \/ FinishTurn(c)
    \/ RecordExit(c)

\* One step of core c's thread.
CoreStep(c) ==
  \/ LoopTop(c) \/ WaitTurn(c) \/ Wakeup(c) \/ LoopCheck(c) \/ Tick(c)
  \/ AfterTick(c) \/ MarkHalted(c) \/ Stop(c) \/ FinishTurn(c)
  \/ RecordExit(c)

SpecSched == InitSched /\ [][NextSched]_vars

\* The operating system schedules every runnable thread again and again.
FairSpecSched ==
  SpecSched /\ \A c \in 0..(MaxCores - 1) : WF_vars(CoreStep(c))

(***************************************************************************)
(* The interrupt controller and the part of tick() that talks to it.       *)
(* Cores run as free threads (--sched free): every atomic access and every *)
(* hold of the routes mutex is one step.  A tick is check_for_interrupts   *)
(* (dispatch_input, take_pending, read_ipi_payload) and one instruction,   *)
(* which here is a crmv to ISR or an ipi.                                  *)
(***************************************************************************)
NumIntrCores == Cardinality(IntrCores)

\* MBO values a guest sends; 0 is a payload like any other.
IpiValues == {0, 1}
\* ipi's target field, instr & 0x3.
IpiTargets == 0..3

\* AtomicU32::fetch_or on a pending word.
FetchStore(old, bits) == bits
FetchOr(old, bits) == old \cup bits

\* AtomicU32::swap(0): what is left in the pending word.
SwapZero(old) == {}

\* set_pending_bits
SetPendingBits(p, core, bits) == [p EXCEPT ![core] = FetchOr(@, bits)]

\* read_ipi_payload
ReadIpiPayloadOther(slots, core) == slots[(core + 1) % NumIntrCores]
ReadIpiPayload(slots, core) == slots[core]

\* send_ipi's two accesses in program order.
SendIpiStepSwapped(i) ==
  IF i = 1 THEN "set_pending_bits" ELSE "write_ipi_payload"
SendIpiStep(i) == IF i = 1 THEN "write_ipi_payload" ELSE "set_pending_bits"

\* The input bit dispatch_input raises in this run.
InputBit == IF use_uart_rx THEN UART_INTERRUPT_BIT ELSE KB_INTERRUPT_BIT

\* ack_input under the routes mutex.
AckInput(r, core, cleared_bits) ==
  LET r1 == IF (cleared_bits \cap KB_INTERRUPT_BIT) # {}
                 /\ r.kb_inflight = Some(core)
              THEN [r EXCEPT !.kb_inflight = NoCore] ELSE r
  IN  IF (cleared_bits \cap UART_INTERRUPT_BIT) # {}
           /\ r1.uart_inflight = Some(core)
        THEN [r1 EXCEPT !.uart_inflight = NoCore] ELSE r1

\* Values a crmv writes to ISR: the old value with the input bit cleared,
\* or with the input bit set.
IsrWrites(old) == {old \ InputBit, old \cup InputBit}

InitIntr ==
  /\ ParkedBus
  /\ ParkedSched
  /\ ParkedDev
  /\ ParkedTlb
  /\ ParkedCpu
  /\ ParkedAlu
  /\ ParkedSd
  /\ ParkedWatch
  /\ ParkedDma
  /\ InterruptControllerNew
  /\ use_uart_rx \in BOOLEAN

IGoto(c, l) == ipc' = [ipc EXCEPT ![c] = l]

\* check_for_interrupts, first part: dispatch_input with the io buffer
\* empty or not, under the routes mutex.
DispatchInput(c) ==
  /\ ipc[c] = "check"
  /\ ticks < MaxTicks
  /\ ticks' = ticks + 1
  /\ \E io_nonempty \in BOOLEAN :
       IF use_uart_rx
         THEN IF io_nonempty /\ routes.uart_inflight = NoCore
                THEN LET core == routes.next_uart % NumIntrCores
                     IN  /\ routes' = [routes EXCEPT
                              !.next_uart = (routes.next_uart + 1)
                                              % NumIntrCores,
                              !.uart_inflight = Some(core)]
                         /\ pending' = SetPendingBits(pending, core,
                                                      UART_INTERRUPT_BIT)
                         /\ setSince' = [setSince EXCEPT
                              ![core] = @ \cup UART_INTERRUPT_BIT]
                ELSE UNCHANGED <<routes, pending, setSince>>
         ELSE IF io_nonempty /\ routes.kb_inflight = NoCore
                THEN LET core == routes.next_kb % NumIntrCores
                     IN  /\ routes' = [routes EXCEPT
                              !.next_kb = (routes.next_kb + 1) % NumIntrCores,
                              !.kb_inflight = Some(core)]
                         /\ pending' = SetPendingBits(pending, core,
                                                      KB_INTERRUPT_BIT)
                         /\ setSince' = [setSince EXCEPT
                              ![core] = @ \cup KB_INTERRUPT_BIT]
                ELSE UNCHANGED <<routes, pending, setSince>>
  /\ IGoto(c, "take")
  /\ UNCHANGED <<sendsIssued, ipi_payload, use_uart_rx, isr, mbi, taken,
                 ipiOp, takeLog,
                 storeLog, bitFrom, delivery, inputHeld, busVars, schedVars,
                 devVars, tlbVars, cpuVars, aluVars,
                 sdVars, watchVars, dmaVars>>

\* take_pending; without the IPI bit the word is ORed into ISR at once
\* (core-local), with it the payload is read first.
TakePending(c) ==
  /\ ipc[c] = "take"
  /\ pending' = [pending EXCEPT ![c] = SwapZero(@)]
  /\ taken' = [taken EXCEPT ![c] = pending[c]]
  /\ takeLog' = [takeLog EXCEPT ![c] = [got |-> pending[c],
                                        owed |-> setSince[c]]]
  /\ setSince' = [setSince EXCEPT ![c] = {}]
  /\ bitFrom' = [bitFrom EXCEPT ![c] = {}]
  /\ IF (pending[c] \cap IPI_INTERRUPT_BIT) # {}
       THEN /\ delivery' = [delivery EXCEPT
                 ![c] = [NoDelivery EXCEPT !.took = bitFrom[c]]]
            /\ IGoto(c, "payload")
            /\ UNCHANGED <<isr, inputHeld>>
       ELSE /\ isr' = [isr EXCEPT ![c] = @ \cup pending[c]]
            /\ inputHeld' = [inputHeld EXCEPT
                 ![c] = @ \/ (pending[c] \cap InputBit) # {}]
            /\ IGoto(c, "exec")
            /\ UNCHANGED delivery
  /\ UNCHANGED <<sendsIssued, ipi_payload, routes, use_uart_rx, mbi, ipiOp,
                 ticks,
                 storeLog, busVars, schedVars, devVars, tlbVars, cpuVars, aluVars,
                 sdVars, watchVars, dmaVars>>

\* cregfile[10] = read_ipi_payload(core_id); cregfile[2] |= pending
ReadPayload(c) ==
  /\ ipc[c] = "payload"
  /\ LET v == ReadIpiPayload(ipi_payload, c)
         i == isr[c] \cup taken[c]
     IN  /\ mbi' = [mbi EXCEPT ![c] = v]
         /\ isr' = [isr EXCEPT ![c] = i]
         /\ delivery' = [delivery EXCEPT
              ![c] = [@ EXCEPT !.val = v, !.stores = Len(storeLog[c]),
                               !.isr5 = IPI_INTERRUPT_BIT \subseteq i,
                               !.done = TRUE]]
  /\ inputHeld' = [inputHeld EXCEPT ![c] = @ \/ (taken[c] \cap InputBit) # {}]
  /\ IGoto(c, "exec")
  /\ UNCHANGED <<sendsIssued, pending, ipi_payload, routes, use_uart_rx,
                 taken, ipiOp,
                 ticks, setSince, takeLog, storeLog, bitFrom, busVars,
                 schedVars, devVars, tlbVars, cpuVars, aluVars,
                 sdVars, watchVars, dmaVars>>

\* crmv to ISR: write_isr, with ack_input for the bits that went 1 -> 0.
CrmvIsr(c) ==
  /\ ipc[c] = "exec"
  /\ \E value \in IsrWrites(isr[c]) :
       LET old == isr[c]
           cleared == old \ value
       IN  /\ isr' = [isr EXCEPT ![c] = value]
           /\ routes' = IF cleared # {} THEN AckInput(routes, c, cleared)
                        ELSE routes
           /\ inputHeld' = [inputHeld EXCEPT
                ![c] = @ /\ (cleared \cap InputBit) = {}]
  /\ IGoto(c, "check")
  /\ UNCHANGED <<sendsIssued, pending, ipi_payload, use_uart_rx, mbi, taken,
                 ipiOp, ticks,
                 setSince, takeLog, storeLog, bitFrom, delivery, busVars,
                 schedVars, devVars, tlbVars, cpuVars, aluVars,
                 sdVars, watchVars, dmaVars>>

\* ipi_op: send_ipi(target, MBO); an out-of-range target returns false.
IpiOp(c) ==
  /\ ipc[c] = "exec"
  /\ sendsIssued < MaxSends
  /\ \E target \in IpiTargets, value \in IpiValues :
       IF target >= NumIntrCores
         THEN IGoto(c, "check") /\ UNCHANGED <<ipiOp, sendsIssued>>
         ELSE /\ ipiOp' = [ipiOp EXCEPT ![c] = [target |-> target,
                             value |-> value, step |-> 1]]
              /\ sendsIssued' = sendsIssued + 1
              /\ IGoto(c, "send")
  /\ UNCHANGED <<pending, ipi_payload, routes, use_uart_rx, isr, mbi, taken,
                 ticks, setSince, takeLog, storeLog, bitFrom, delivery,
                 inputHeld, busVars, schedVars, devVars, tlbVars, cpuVars, aluVars,
                 sdVars, watchVars, dmaVars>>

\* One access of send_ipi: the payload store or the pending-bit set.
SendIpi(c) ==
  /\ ipc[c] = "send"
  /\ LET op == ipiOp[c]
         send == [from |-> c, val |-> op.value]
     IN  /\ IF SendIpiStep(op.step) = "write_ipi_payload"
              THEN /\ ipi_payload' = [ipi_payload EXCEPT
                        ![op.target] = op.value]
                   /\ storeLog' = [storeLog EXCEPT
                        ![op.target] = Append(@, send)]
                   /\ UNCHANGED <<pending, setSince, bitFrom>>
              ELSE /\ pending' = SetPendingBits(pending, op.target,
                                                IPI_INTERRUPT_BIT)
                   /\ setSince' = [setSince EXCEPT
                        ![op.target] = @ \cup IPI_INTERRUPT_BIT]
                   /\ bitFrom' = [bitFrom EXCEPT
                        ![op.target] = @ \cup {send}]
                   /\ UNCHANGED <<ipi_payload, storeLog>>
         /\ IF op.step = 1
              THEN /\ ipiOp' = [ipiOp EXCEPT ![c] = [op EXCEPT !.step = 2]]
                   /\ UNCHANGED ipc
              ELSE /\ ipiOp' = [ipiOp EXCEPT ![c] = NoSend]
                   /\ IGoto(c, "check")
  /\ UNCHANGED <<sendsIssued, routes, use_uart_rx, isr, mbi, taken, ticks,
                 takeLog,
                 delivery, inputHeld, busVars, schedVars, devVars, tlbVars,
                 cpuVars, aluVars,
                 sdVars, watchVars, dmaVars>>

NextIntr ==
  \E c \in IntrCores :
    \/ DispatchInput(c)
    \/ TakePending(c)
    \/ ReadPayload(c)
    \/ CrmvIsr(c)
    \/ IpiOp(c)
    \/ SendIpi(c)

SpecIntr == InitIntr /\ [][NextIntr]_vars

(***************************************************************************)
(* Device interrupts.  Devices (the graphics loop on the main thread, the  *)
(* SD DMA engines, a zero-length SD start written by a core) OR bits into  *)
(* Memory.pending_interrupt; every core's tick polls it with               *)
(* check_interrupts, hands the word to dispatch_device_interrupts and      *)
(* takes its own pending word.  Each lock hold is one step.                *)
(***************************************************************************)
intrRest == <<ipi_payload, use_uart_rx, mbi, ipc, taken, ipiOp, ticks,
              sendsIssued, storeLog, bitFrom, delivery, inputHeld>>

InitDev ==
  /\ ParkedBus
  /\ ParkedSched
  /\ ParkedIntr
  /\ ParkedDev
  /\ ParkedTlb
  /\ ParkedCpu
  /\ ParkedAlu
  /\ ParkedSd
  /\ ParkedWatch
  /\ ParkedDma

DGoto(c, l) == dpc' = [dpc EXCEPT ![c] = l]

\* *self.pending_interrupt.write().unwrap() |= bit
DeviceRaise ==
  /\ devRaises < MaxDevRaises
  /\ devRaises' = devRaises + 1
  /\ \E b \in DeviceBits :
       /\ pending_interrupt' = pending_interrupt \cup {b}
       /\ unreturned' = unreturned \cup {b}
  /\ UNCHANGED <<dpc, ints, devTicks, lostBits, twiceBits, lastDispatch,
                 busVars, schedVars, intrVars, tlbVars, cpuVars, aluVars,
                 sdVars, watchVars, dmaVars>>

\* check_interrupts, first statement: the word is read under the read
\* lock, and the lock is released.
CheckInterruptsRead(c) ==
  /\ dpc[c] = "poll"
  /\ devTicks < MaxDevTicks
  /\ devTicks' = devTicks + 1
  /\ ints' = [ints EXCEPT ![c] = pending_interrupt]
  /\ DGoto(c, IF pending_interrupt # {} THEN "clear" ELSE "dispatch")
  /\ UNCHANGED <<pending_interrupt, devRaises, unreturned, lostBits,
                 twiceBits, lastDispatch, busVars, schedVars, intrVars,
                 tlbVars, cpuVars, aluVars,
                 sdVars, watchVars, dmaVars>>

\* check_interrupts, second statement: the word is set to 0 under the
\* write lock, and the word read before is returned.
CheckInterruptsClear(c) ==
  /\ dpc[c] = "clear"
  /\ pending_interrupt' = {}
  /\ lostBits' = lostBits \cup (pending_interrupt \ ints[c])
  /\ twiceBits' = twiceBits \cup (ints[c] \ unreturned)
  /\ unreturned' = unreturned \ ints[c]
  /\ DGoto(c, "dispatch")
  /\ UNCHANGED <<ints, devRaises, devTicks, lastDispatch, busVars,
                 schedVars, intrVars, tlbVars, cpuVars, aluVars,
                 sdVars, watchVars, dmaVars>>

\* dispatch_device_interrupts: the cores on which it sets each bit.
DispatchTargets(r, word) ==
  [b \in DeviceBits |->
     IF b \in SD_INTERRUPT_BIT /\ b \in word
       THEN {r.next_sd % Cardinality(IntrCores)}
     ELSE IF b \in VGA_INTERRUPT_BIT /\ b \in word
       THEN {r.next_vga % Cardinality(IntrCores)}
     ELSE {}]

\* dispatch_device_interrupts(ints) under the routes mutex.
DispatchDeviceInterrupts(c) ==
  /\ dpc[c] = "dispatch"
  /\ LET word == ints[c]
         tg == DispatchTargets(routes, word)
         n == Cardinality(IntrCores)
         bitsFor(core) == {b \in DeviceBits : core \in tg[b]}
     IN  IF word = {}
           THEN UNCHANGED <<routes, pending, setSince, lastDispatch>>
           ELSE /\ routes' = [routes EXCEPT
                     !.next_sd = IF (word \cap SD_INTERRUPT_BIT) # {}
                                   THEN (@ + 1) % n ELSE @,
                     !.next_vga = IF (word \cap VGA_INTERRUPT_BIT) # {}
                                    THEN (@ + 1) % n ELSE @]
                /\ pending' = [core \in IntrCores |->
                                 pending[core] \cup bitsFor(core)]
                /\ setSince' = [core \in IntrCores |->
                                  setSince[core] \cup bitsFor(core)]
                /\ lastDispatch' = [word |-> word, targets |-> tg]
  /\ DGoto(c, "take")
  /\ UNCHANGED <<pending_interrupt, ints, devRaises, devTicks, unreturned,
                 lostBits, twiceBits, isr, takeLog, intrRest, busVars,
                 schedVars, tlbVars, cpuVars, aluVars,
                 sdVars, watchVars, dmaVars>>

\* take_pending and cregfile[2] |= pending
TakeDevicePending(c) ==
  /\ dpc[c] = "take"
  /\ pending' = [pending EXCEPT ![c] = {}]
  /\ takeLog' = [takeLog EXCEPT ![c] = [got |-> pending[c],
                                        owed |-> setSince[c]]]
  /\ setSince' = [setSince EXCEPT ![c] = {}]
  /\ isr' = [isr EXCEPT ![c] = @ \cup pending[c]]
  /\ DGoto(c, "poll")
  /\ UNCHANGED <<pending_interrupt, ints, devRaises, devTicks, unreturned,
                 lostBits, twiceBits, lastDispatch, routes, intrRest,
                 busVars, schedVars, tlbVars, cpuVars, aluVars,
                 sdVars, watchVars, dmaVars>>

NextDev ==
  \/ DeviceRaise
  \/ \E c \in IntrCores :
       \/ CheckInterruptsRead(c)
       \/ CheckInterruptsClear(c)
       \/ DispatchDeviceInterrupts(c)
       \/ TakeDevicePending(c)

SpecDev == InitDev /\ [][NextDev]_vars

(***************************************************************************)
(* The TLB of one core (RandomCache) and the translation of the addresses  *)
(* of its fetches, loads, stores and atomics.  A payload is the 32-bit     *)
(* entry: the flags R, W, X, U, G in bits 0..4 and the page above bit 11.  *)
(***************************************************************************)
\* The capacity both tables are built with, RandomCache::new(capacity).
\* The emulator passes 32; the tables of the model are small enough for the
\* tlbw instructions of a run to fill them and evict.
TlbCapacity == 2

PHYSMEM_MAX == 134217727

\* Flag masks of a payload.
TLB_R == 1
TLB_W == 2
TLB_X == 4
TLB_U == 8
TLB_G == 16

\* cregfile[1] values, page numbers (the last page at or below PHYSMEM_MAX
\* and the first one above it) and `ra` register values of the tlb
\* instructions of the model.
TlbPids == {0, 1}
TlbVpns == {32767, 32768}
TlbPayloads == {134217728 + 4096 + 9, 4096 + 7, 8192 + 31, 8192 + 19}

\* Virtual addresses of the memory accesses of the model: the last word at
\* or below PHYSMEM_MAX and an unaligned address above it.
MemAddrs == {134217724, 134217730}
MemKinds == {"fetch", "read8", "write8", "write32", "atomic_add32"}

\* v & m != 0, for a one-bit mask m.
HasBit(v, m) == (v \div m) % 2 = 1

\* operations: 0 => read, 1 => write, 2 => fetch
OperationBit(operation) ==
  CASE operation = 0 -> TLB_R
    [] operation = 1 -> TLB_W
    [] operation = 2 -> TLB_X

\* HashMap get / insert / remove.
TableGet(table, key) == IF key \in DOMAIN table THEN {table[key]} ELSE {}
TableInsert(table, key, v) ==
  [k \in DOMAIN table \cup {key} |-> IF k = key THEN v ELSE table[k]]
TableRemove(table, key) == [k \in DOMAIN table \ {key} |-> table[k]]

\* The user-mode test of access with the U bit ignored.
UserAllowedAlways(v, km) == TRUE

\* The second and_then of access: user mode needs the U bit.
UserAllowed(v, km) == km \/ HasBit(v, TLB_U)

\* The and_then / and_then / map chain of access applied to a looked-up
\* payload: None unless the operation's bit (and U in user mode) is set.
PermissionChain(found, operation, km) ==
  {v - (v % 4096) : v \in {w \in found : /\ HasBit(w, OperationBit(operation))
                                         /\ UserAllowed(w, km)}}

\* RandomCache::access: the private chain, and the global chain whenever
\* the private one gave None.
Access(pid, vpn, operation, km) ==
  LET result == PermissionChain(TableGet(private_table, <<pid, vpn>>),
                                operation, km)
  IN  IF result # {}
        THEN result
        ELSE PermissionChain(TableGet(global_table, vpn), operation, km)

\* The assert! pair at the head of access and read and at the end of write.
CapacityAsserts(psize, gsize) == psize <= TlbCapacity /\ gsize <= TlbCapacity

\* write with the size counted up for a key the table already holds.
TakesSlotAlways(table, key) == TRUE

\* write: !table.contains_key(&key)
TakesSlot(table, key) == key \notin DOMAIN table

\* RandomCache::write on one of the two tables: the outcomes it can have.
\* A full table loses keys().next(), any of its keys.
WriteOutcomes(table, size, key, v) ==
  IF ~TakesSlot(table, key)
    THEN {[table |-> TableInsert(table, key, v), size |-> size,
           panic |-> FALSE]}
  ELSE IF size < TlbCapacity
    THEN {[table |-> TableInsert(table, key, v), size |-> size + 1,
           panic |-> FALSE]}
  ELSE IF DOMAIN table = {}
    THEN {[table |-> table, size |-> size, panic |-> TRUE]}
  ELSE {[table |-> TableInsert(TableRemove(table, evict), key, v),
         size |-> size, panic |-> FALSE] : evict \in DOMAIN table}

\* Emulator::convert_mem_address
ConvertMemAddress(km, pid, addr, operation) ==
  IF km /\ addr <= PHYSMEM_MAX
    THEN {addr}
    ELSE {result + (addr % 4096) :
            result \in Access(pid, addr \div 4096, operation, km)}

\* The translations a memory access makes, in order, as <<address,
\* operation>>: fetch and the 8-bit accesses translate the address as
\* given, write32 the four bytes of the aligned word, read32 the four
\* bytes from the address as given, write16 the two bytes of the aligned
\* halfword, read16 the two bytes from the address as given, the atomics
\* the aligned address for reading and then for writing.
MemTranslations(kind, vaddr) ==
  LET aligned == vaddr - (vaddr % 4)
      aligned16 == vaddr - (vaddr % 2)
  IN  CASE kind = "fetch" -> <<<<vaddr, 2>>>>
        [] kind = "write16" -> [i \in 1..2 |-> <<aligned16 + (i - 1), 1>>]
        [] kind = "read16" -> [i \in 1..2 |-> <<vaddr + (i - 1), 0>>]
        [] kind = "atomic_swap32" -> <<<<aligned, 0>>, <<aligned, 1>>>>
        [] kind = "read8" -> <<<<vaddr, 0>>>>
        [] kind = "write8" -> <<<<vaddr, 1>>>>
        [] kind = "write32" -> [i \in 1..4 |-> <<aligned + (i - 1), 1>>]
        [] kind = "read32" -> [i \in 1..4 |-> <<vaddr + (i - 1), 0>>]
        [] kind = "atomic_add32" -> <<<<aligned, 0>>, <<aligned, 1>>>>

InitTlb ==
  /\ ParkedBus
  /\ ParkedSched
  /\ ParkedIntr
  /\ ParkedDev
  /\ ParkedTlb
  /\ ParkedCpu
  /\ ParkedAlu
  /\ ParkedSd
  /\ ParkedWatch
  /\ ParkedDma

\* tlb_op's tlbw with the register passed on whole.
TlbwUnmasked(ra) == ra

\* tlb_op's tlbw: ra & 0x7FFFFFF
TlbwMasked(ra) == ra % 134217728

\* RandomCache::write: into the global table for a payload with G, into
\* the private one otherwise.
RandomCacheWrite(pid, vpn, ppn) ==
  IF HasBit(ppn, TLB_G)
    THEN /\ \E o \in WriteOutcomes(global_table, global_size, vpn, ppn) :
              /\ global_table' = o.table
              /\ global_size' = o.size
              /\ tlbPanic' = (tlbPanic \/ o.panic
                              \/ ~CapacityAsserts(private_size, o.size))
         /\ UNCHANGED <<private_table, private_size>>
    ELSE /\ \E o \in WriteOutcomes(private_table, private_size,
                                   <<pid, vpn>>, ppn) :
              /\ private_table' = o.table
              /\ private_size' = o.size
              /\ tlbPanic' = (tlbPanic \/ o.panic
                              \/ ~CapacityAsserts(o.size, global_size))
         /\ UNCHANGED <<global_table, global_size>>

\* RandomCache::invalidate
RandomCacheInvalidate(pid, vpn) ==
  LET inPrivate == <<pid, vpn>> \in DOMAIN private_table
      inGlobal == vpn \in DOMAIN global_table
  IN  /\ private_size' = IF inPrivate /\ private_size > 0
                           THEN private_size - 1 ELSE private_size
      /\ global_size' = IF inGlobal /\ global_size > 0
                          THEN global_size - 1 ELSE global_size
      /\ tlbPanic' = (tlbPanic \/ (inPrivate /\ private_size = 0)
                      \/ (inGlobal /\ global_size = 0))
      /\ private_table' = TableRemove(private_table, <<pid, vpn>>)
      /\ global_table' = TableRemove(global_table, vpn)

\* RandomCache::clear
RandomCacheClear ==
  /\ private_size' = 0
  /\ global_size' = 0
  /\ private_table' = EmptyTable
  /\ global_table' = EmptyTable
  /\ UNCHANGED tlbPanic

\* What the tlb instruction of a core's tick does to its TLB.
TlbCommit(req) ==
  /\ CASE req.op = "none" ->
             UNCHANGED <<private_table, private_size, global_table,
                         global_size, tlbPanic>>
        [] req.op = "read" ->
             /\ tlbPanic' = (tlbPanic
                             \/ ~CapacityAsserts(private_size, global_size))
             /\ UNCHANGED <<private_table, private_size, global_table,
                            global_size>>
        [] req.op = "write" ->
             RandomCacheWrite(req.pid, req.vpn, TlbwMasked(req.v))
        [] req.op = "invalidate" -> RandomCacheInvalidate(req.pid, req.vpn)
        [] req.op = "clear" -> RandomCacheClear
  /\ UNCHANGED lastMem

\* tlbw: self.tlb.write(cregfile[1], rb >> 12, ra & 0x7FFFFFF)
TlbWrite ==
  \E pid \in TlbPids, vpn \in TlbVpns, ra \in TlbPayloads :
    /\ RandomCacheWrite(pid, vpn, TlbwMasked(ra))
    /\ lastMem' = NoMem
    /\ UNCHANGED <<busVars, schedVars, intrVars, devVars, cpuVars, aluVars,
                   sdVars, watchVars, dmaVars>>

\* tlbi: self.tlb.invalidate(cregfile[1], rb >> 12)
TlbInvalidate ==
  \E pid \in TlbPids, vpn \in TlbVpns :
        /\ RandomCacheInvalidate(pid, vpn)
        /\ lastMem' = NoMem
        /\ UNCHANGED <<busVars, schedVars, intrVars, devVars, cpuVars, aluVars,
                 sdVars, watchVars, dmaVars>>

\* tlbc: self.tlb.clear()
TlbClear ==
  /\ RandomCacheClear
  /\ lastMem' = NoMem
  /\ UNCHANGED <<busVars, schedVars, intrVars, devVars, cpuVars, aluVars,
                 sdVars, watchVars, dmaVars>>

\* One fetch, mem_read8, mem_write8, mem_write32 or mem_atomic_add32 of a
MemAtomics == {"atomic_add32", "atomic_swap32"}

\* core in mode km with cregfile[1] = pid: memory is touched at the
\* translated addresses when every translation succeeds (and, for the
\* atomic, the two agree); otherwise the caller raises the TLB miss.
MemAccess(km, pid, kind, vaddr) ==
    LET steps == MemTranslations(kind, vaddr)
        res == [i \in DOMAIN steps |->
                  ConvertMemAddress(km, pid, steps[i][1], steps[i][2])]
        ok == /\ \A i \in DOMAIN steps : res[i] # {}
              /\ kind \in MemAtomics => res[1] = res[2]
        touched == IF kind \in MemAtomics THEN {1} ELSE DOMAIN steps
    IN  /\ lastMem' = [kmode |-> km, pid |-> pid, kind |-> kind,
                       vaddr |-> vaddr,
                       phys |-> IF ok
                                  THEN [i \in touched |->
                                          CHOOSE p \in res[i] : TRUE]
                                  ELSE <<>>,
                       miss |-> ~ok,
                       vector |-> IF ok THEN 0
                                  ELSE IF km THEN 131 ELSE 130]
        /\ tlbPanic' = (tlbPanic
                        \/ ~CapacityAsserts(private_size, global_size))
        /\ UNCHANGED <<private_table, private_size, global_table,
                       global_size, busVars, schedVars, intrVars, devVars,
                       cpuVars, aluVars,
                 sdVars, watchVars, dmaVars>>

\* the accesses of the translation runs
MemOp ==
  \E km \in BOOLEAN, pid \in TlbPids, kind \in MemKinds, vaddr \in MemAddrs :
    /\ vaddr \in MemAddrs
    /\ MemAccess(km, pid, kind, vaddr)

NextTlb ==
  \/ TlbWrite
  \/ TlbInvalidate
  \/ TlbClear
  \/ MemOp

SpecTlb == InitTlb /\ [][NextTlb]_vars

\* The 16-bit and 32-bit accesses at every alignment, in page 0 and in the
\* last eight bytes at or below PHYSMEM_MAX, from kernel mode and, with the
\* TLB empty, from user mode.
AlignKinds == {"read16", "write16", "read32", "write32"} \cup MemAtomics
AlignAddrs == (2048..2055) \cup ((PHYSMEM_MAX - 7)..PHYSMEM_MAX)

\* a halfword load or store
AlignHalf ==
  \E km \in BOOLEAN, kind \in {"read16", "write16"}, vaddr \in AlignAddrs :
    /\ kind \in AlignKinds
    /\ MemAccess(km, 0, kind, vaddr)
\* a word load or store
AlignWord ==
  \E km \in BOOLEAN, kind \in {"read32", "write32"}, vaddr \in AlignAddrs :
    /\ kind \in AlignKinds
    /\ MemAccess(km, 0, kind, vaddr)
\* an atomic swap or add
AlignAtomic ==
  \E km \in BOOLEAN, kind \in MemAtomics, vaddr \in AlignAddrs :
    /\ kind \in AlignKinds
    /\ MemAccess(km, 0, kind, vaddr)

NextAlign ==
  \/ AlignHalf
  \/ AlignWord
  \/ AlignAtomic

SpecAlign == InitTlb /\ [][NextAlign]_vars

(***************************************************************************)
(* The ALU on full 32-bit words: alu_op with decode_alu_imm and            *)
(* update_flags, and the branch conditions.  A word is the pair            *)
(* <<bits 31..16, bits 15..0>>, so that no sum leaves the integers.        *)
(***************************************************************************)
\* !w
Not32(w) == <<65535 - w[1], 65535 - w[2]>>

\* u64::from(a) + u64::from(b) + c for a carry c: `result >> 32` and
\* `result as u32`.
Add64(a, b, c) ==
  LET lo == a[2] + b[2] + c
      hi == a[1] + b[1] + (lo \div 65536)
  IN  [carry |-> hi \div 65536, low |-> <<hi % 65536, lo % 65536>>]

\* (1 + u64::from(!w)) as u32
Negate(w) == Add64(Not32(w), <<0, 0>>, 1).low

\* w >> 31
SignOf(w) == w[1] \div 32768

\* decode_alu_imm: None (after raise_exc_instr) for an op above 18.
DecodeAluImm(op, imm) ==
  IF op \in 0..6
    THEN LET byte == imm % 256
             place == (imm \div 256) % 4
         IN  {CASE place = 0 -> <<0, byte>>
                [] place = 1 -> <<0, byte * 256>>
                [] place = 2 -> <<byte, 0>>
                [] place = 3 -> <<byte * 256, 0>>}
  ELSE IF op \in 7..13 THEN {<<0, imm % 32>>}
  ELSE IF op \in 14..18
    THEN {IF (imm \div 2048) % 2 = 1 THEN <<65535, 61440 + (imm % 4096)>>
                                     ELSE <<0, imm % 4096>>}
  ELSE {}

\* (w >> i) & 1
WordBit(w, i) ==
  IF i < 16 THEN (w[2] \div 2^i) % 2 ELSE (w[1] \div 2^(i - 16)) % 2

RECURSIVE SumBits(_, _, _)
\* the n bits b[from] .. b[from + n - 1] as a number
SumBits(b, from, n) ==
  IF n = 0 THEN 0
  ELSE b[from + n - 1] * 2^(n - 1) + SumBits(b, from, n - 1)

\* the u32 with the bits b[0] .. b[31]
WordOfBits(b) == <<SumBits(b, 16, 16), SumBits(b, 0, 16)>>

\* w << n as u32, for n in 0..31
Shl32(w, n) ==
  WordOfBits([i \in 0..31 |-> IF i >= n THEN WordBit(w, i - n) ELSE 0])

\* w >> n, for n in 0..32 (an amount of 32 is reached only as 32 - r_c)
Shr32(w, n) ==
  WordOfBits([i \in 0..31 |-> IF i + n <= 31 THEN WordBit(w, i + n) ELSE 0])

\* a & b and a | b
And32(a, b) == WordOfBits([i \in 0..31 |-> WordBit(a, i) * WordBit(b, i)])
Or32(a, b) ==
  WordOfBits([i \in 0..31 |-> IF WordBit(a, i) + WordBit(b, i) > 0
                               THEN 1 ELSE 0])

\* (1 << n) - 1, for n in 0..31
LowMask(n) == WordOfBits([i \in 0..31 |-> IF i < n THEN 1 ELSE 0])

\* `if r_c > 0 {32 - r_c} else {0}`
Complement(n) == IF n > 0 THEN 32 - n ELSE 0

\* The arms of alu_op's match for not (6), lsl (7), lsr (8), asr (9),
\* add (14), addc (15), sub (16) and tncb (20), with the carry each one
\* sets; no arm for an op above 21.  The shift arms are given for amounts
\* 0..31, where no shift of the code overflows.
AluResult(op, imm, r_b, r_c, prev_carry) ==
  CASE op = 6 -> {[carry |-> 0, result |-> Not32(r_c)]}
    [] op = 7 ->
         {[carry |-> IF Shr32(r_b, Complement(r_c[2])) # <<0, 0>>
                       THEN 1 ELSE 0,
           result |-> Shl32(r_b, r_c[2])]}
    [] op = 8 ->
         {[carry |-> IF And32(r_b, LowMask(r_c[2])) # <<0, 0>>
                       THEN 1 ELSE 0,
           result |-> Shr32(r_b, r_c[2])]}
    [] op = 9 ->
         {[carry |-> WordBit(r_b, 0),
           result |-> Or32(Shr32(r_b, r_c[2]),
                           Shl32(IF SignOf(r_b) = 1 THEN <<65535, 65535>>
                                                    ELSE <<0, 0>>,
                                 Complement(r_c[2])))]}
    [] op = 14 -> LET s == Add64(r_b, r_c, 0)
                  IN  {[carry |-> s.carry, result |-> s.low]}
    [] op = 15 -> LET s == Add64(r_c, r_b, prev_carry)
                  IN  {[carry |-> s.carry, result |-> s.low]}
    [] op = 16 -> LET s == IF imm THEN Add64(r_c, Negate(r_b), 0)
                                  ELSE Add64(Negate(r_c), r_b, 0)
                  IN  {[carry |-> s.carry, result |-> s.low]}
    [] op = 20 -> {[carry |-> 0, result |-> <<0, r_c[2] % 256>>]}
    [] op > 21 -> {}

\* update_flags with the overflow rule of the subtractions for every op.
OverflowFlagOfSub(is_sub, result_sign, lhs_sign, rhs_sign) ==
  result_sign # lhs_sign /\ lhs_sign # rhs_sign

\* update_flags: the overflow flag.
OverflowFlag(is_sub, result_sign, lhs_sign, rhs_sign) ==
  IF is_sub THEN result_sign # lhs_sign /\ lhs_sign # rhs_sign
            ELSE result_sign # lhs_sign /\ lhs_sign = rhs_sign

\* update_flags: zero, sign and overflow ORed into FLG (the carry is
\* already in it, the other three bits are clear).
UpdateFlags(flg, result, lhs, rhs, op) ==
  flg + (IF result = <<0, 0>> THEN 2 ELSE 0)
      + (IF SignOf(result) # 0 THEN 4 ELSE 0)
      + (IF OverflowFlag(op \in {16, 17}, SignOf(result), SignOf(lhs),
                         SignOf(rhs))
           THEN 8 ELSE 0)

\* alu_op on FLG = flg, get_reg(r_b) = r_b and, for c, get_reg(r_c) or the
\* 12-bit immediate <<0, imm>>.  "panic": decode_alu_imm returned None and
\* the expect failed; "illegal": raise_exc_instr with the flags cleared.
AluOp(flg, op, imm, r_b, c) ==
  LET decoded == IF imm THEN DecodeAluImm(op, c[2]) ELSE {c}
      r_c == CHOOSE w \in decoded : TRUE
      cleared == flg - (flg % 16)
      arm == AluResult(op, imm, r_b, r_c, flg % 2)
      out == CHOOSE o \in arm : TRUE
  IN  IF decoded = {}
        THEN [status |-> "panic", result |-> <<0, 0>>, flgAfter |-> flg]
      ELSE IF arm = {}
        THEN [status |-> "illegal", result |-> <<0, 0>>, flgAfter |-> cleared]
      ELSE [status |-> "ok", result |-> out.result,
            flgAfter |-> UpdateFlags(cleared + out.carry, out.result, r_b,
                                     r_c, op)]

\* get_branch_condition: None (after raise_exc_instr) for an op above 18.
GetBranchCondition(flg, op) ==
  LET carry == flg % 2 = 1
      zero == (flg \div 2) % 2 = 1
      sign == (flg \div 4) % 2 = 1
      overflow == (flg \div 8) % 2 = 1
  IN  CASE op = 0 -> {TRUE}
        [] op = 1 -> {zero}
        [] op = 2 -> {~zero}
        [] op = 3 -> {sign}
        [] op = 4 -> {~sign}
        [] op = 5 -> {carry}
        [] op = 6 -> {~carry}
        [] op = 7 -> {overflow}
        [] op = 8 -> {~overflow}
        [] op = 9 -> {~zero /\ ~sign}
        [] op = 10 -> {zero \/ sign}
        [] op = 11 -> {sign = overflow /\ ~zero}
        [] op = 12 -> {sign = overflow}
        [] op = 13 -> {sign # overflow /\ ~zero}
        [] op = 14 -> {sign # overflow \/ zero}
        [] op = 15 -> {~zero /\ carry}
        [] op = 16 -> {carry \/ zero}
        [] op = 17 -> {~carry /\ ~zero}
        [] op = 18 -> {~carry \/ zero}
        [] op > 18 -> {}

\* Register values of the ALU runs, around 0, 2^31 and 2^32.
AluWords ==
  {<<0, 0>>, <<0, 1>>, <<0, 5>>, <<32767, 65535>>, <<32768, 0>>,
   <<32768, 1>>, <<65535, 65534>>, <<65535, 65535>>}
\* 12-bit immediates: 0, 1, 0x7FF, 0x800, 0xFFF and 0x3FF (0xFF in byte 3
\* for a bitwise op).
AluImms == {<<0, 0>>, <<0, 1>>, <<0, 2047>>, <<0, 2048>>, <<0, 4095>>,
            <<0, 1023>>}
\* FLG before the instruction: clear, carry set, all four set, and all
\* four set under a bit of the upper 28.
AluFlgs == {0, 1, 15, 31}
\* Register-form and immediate-form op fields, with two undefined ones each.
AluRegOps == {6, 14, 15, 16, 20, 22, 31}
AluImmOps == {6, 14, 15, 16, 19, 31}

InitAlu ==
  /\ ParkedBus
  /\ ParkedSched
  /\ ParkedIntr
  /\ ParkedDev
  /\ ParkedTlb
  /\ ParkedCpu
  /\ ParkedSd
  /\ ParkedWatch
  /\ ParkedDma
  /\ \E flg \in AluFlgs, imm \in BOOLEAN, r_b \in AluWords :
     \E op \in IF imm THEN AluImmOps ELSE AluRegOps :
     \E c \in IF imm THEN AluImms ELSE AluWords :
       alu = [NoAlu EXCEPT !.flg = flg, !.op = op, !.imm = imm,
                           !.r_b = r_b, !.c = c]

\* The instruction is executed.
AluRun ==
  /\ ~alu.ran
  /\ \E out \in {AluOp(alu.flg, alu.op, alu.imm, alu.r_b, alu.c)} :
       alu' = [alu EXCEPT !.ran = TRUE, !.status = out.status,
                          !.result = out.result, !.flgAfter = out.flgAfter]
  /\ UNCHANGED <<busVars, schedVars, intrVars, devVars, tlbVars, cpuVars,
                 sdVars, watchVars, dmaVars>>

NextAlu == AluRun

\* The shifts: lsl, lsr and asr in both forms with every amount 0..31; the
\* immediates also with bits above the five of the amount.
ShiftOps == {7, 8, 9}
ShiftWords ==
  {<<0, 0>>, <<0, 1>>, <<0, 2>>, <<0, 6>>, <<16384, 0>>, <<32768, 0>>,
   <<32768, 1>>, <<65535, 65534>>, <<4660, 22136>>}
ShiftAmounts == 0..31

InitShift ==
  /\ ParkedBus
  /\ ParkedSched
  /\ ParkedIntr
  /\ ParkedDev
  /\ ParkedTlb
  /\ ParkedCpu
  /\ ParkedSd
  /\ ParkedWatch
  /\ ParkedDma
  /\ \E flg \in {0, 1}, imm \in BOOLEAN, r_b \in ShiftWords :
     \E op \in ShiftOps, n \in ShiftAmounts :
     \E c \in IF imm THEN {<<0, n>>, <<0, n + 32>>} ELSE {<<0, n>>} :
       alu = [NoAlu EXCEPT !.flg = flg, !.op = op, !.imm = imm,
                           !.r_b = r_b, !.c = c]

\* The shift is executed.
ShiftRun ==
  /\ alu.op \in ShiftOps
  /\ AluRun

NextShift == ShiftRun

SpecShift == InitShift /\ [][NextShift]_vars

SpecAlu == InitAlu /\ [][NextAlu]_vars

(***************************************************************************)
(* One core's ticks: exception entry and return, sleep, translated memory  *)
(* instructions.  An Emulator value is a record e; each method of the core *)
(* is an operator from the record before the call to the record after it.  *)
(* The instruction a tick fetches is an input of the tick.                 *)
(***************************************************************************)
\* The word at n * 4 of the loaded image: the handler of vector n.
Vector(n) == 8192 + (64 * n)

CpuCur ==
  [pc |-> pc, kmode |-> kmode, cregfile |-> cregfile, asleep |-> asleep,
   sleep_armed |-> sleep_armed, regfile |-> regfile, mem |-> cmem,
   panic |-> cpuPanic, halted |-> coreHalted, sent |-> ipiLog,
   tlbop |-> NoTlbOp]

Panic(e) == [e EXCEPT !.panic = TRUE]

\* save_state with the pc left unsaved.
SaveStateNoPc(e) == [e EXCEPT !.cregfile[3] = @ \ {31}]

\* save_state: EPC = pc, IMR bit 31 cleared.
SaveState(e) == [e EXCEPT !.cregfile[4] = e.pc, !.cregfile[3] = @ \ {31}]

\* kmode = true; cregfile[0] += 1; pc = mem_read32(vector * 4)
Enter(e, vector) ==
  [e EXCEPT !.kmode = TRUE, !.cregfile[0] = @ + 1, !.pc = Vector(vector)]

\* The TLB-miss vectors with user and kernel exchanged.
TlbMissVectorSwapped(km) == IF km THEN 130 ELSE 131

\* raise_tlb_miss: 0x83 for a miss in kernel mode, 0x82 in user mode.
TlbMissVector(km) == IF km THEN 131 ELSE 130

\* (addr >> 12) | (cregfile[1] << 20), in 32 bits.
TlbFaultInfo(addr, pid) == (addr \div 4096) + ((pid % 4096) * 1048576)

RaiseTlbMiss(e, addr) ==
  Enter(SaveState([e EXCEPT
                     !.cregfile[7] = TlbFaultInfo(addr, e.cregfile[1])]),
        TlbMissVector(e.kmode))

RaiseExcInstr(e) == Enter(SaveState(e), 128)

\* syscall: kernel mode and PSR + 1 first; then sys EXIT saves pc + 4 and
\* takes vector 1, every other code goes on into raise_exc_instr.
Syscall(e, imm) ==
  LET s == [e EXCEPT !.kmode = TRUE, !.cregfile[0] = @ + 1]
  IN  IF imm = 1
        THEN [s EXCEPT !.cregfile[4] = e.pc + 4, !.pc = Vector(1)]
        ELSE RaiseExcInstr(s)

\* The value a crmv of the model moves into control register idx: for IMR
\* the timer bit alone or with bit 31, for the others y itself.
CrmvValue(idx, y) == IF idx = 3 THEN (IF y = 0 THEN {0} ELSE {0, 31}) ELSE y

\* get_reg: r31 is KSP in kernel mode.
GetReg(e, regnum) ==
  IF e.kmode /\ regnum = 31 THEN e.cregfile[8] ELSE e.regfile[regnum]

\* write_reg with r0 written like any other register.
WriteRegAlsoZero(e, regnum, value) ==
  IF e.kmode /\ regnum = 31 THEN [e EXCEPT !.cregfile[8] = value]
  ELSE [e EXCEPT !.regfile[regnum] = value]

\* write_reg with r31 written in place in both modes.
WriteRegNoAlias(e, regnum, value) ==
  IF regnum # 0 THEN [e EXCEPT !.regfile[regnum] = value] ELSE e

\* write_reg: r31 is KSP in kernel mode, r0 is never written.
WriteReg(e, regnum, value) ==
  IF e.kmode /\ regnum = 31 THEN [e EXCEPT !.cregfile[8] = value]
  ELSE IF regnum # 0 THEN [e EXCEPT !.regfile[regnum] = value]
  ELSE e

\* read_creg for the registers other than ISR and MBI.
ReadCreg(e, idx) == e.cregfile[idx]

\* write_creg for the registers other than ISR and MBI; cregfile has the
\* indices 0..11.
WriteCreg(e, idx, value) ==
  IF idx = 9 THEN e
  ELSE IF idx > 11 THEN Panic(e)
  ELSE [e EXCEPT !.cregfile[idx] = value]

\* crmv ISR, rB and crmv IMR, rB with the register given as its set of bits:
\* write_isr and the plain store of write_creg.
CrmvBits(e, idx, bitset) ==
  [e EXCEPT !.cregfile[idx] = bitset, !.pc = @ + 4]

\* crmv crA, rB
CrmvOp(e, idx, value) == [WriteCreg(e, idx, value) EXCEPT !.pc = @ + 4]

\* mode run (op 0), mode sleep (op 1) and mode halt
ModeOp(e, op) ==
  IF op = 0
    THEN [e EXCEPT !.pc = @ + 4]
  ELSE IF op = 1
    THEN [e EXCEPT !.asleep = TRUE, !.sleep_armed = TRUE]
  ELSE [e EXCEPT !.halted = TRUE]

\* rfe (rfi = FALSE) and rfi (rfi = TRUE)
Rfe(e, rfi) ==
  [e EXCEPT !.cregfile[0] = @ - 1,
            !.kmode = IF e.cregfile[0] - 1 = 0 THEN FALSE ELSE @,
            !.cregfile[3] = IF rfi THEN @ \cup {31} ELSE @,
            !.pc = e.cregfile[4]]

\* RandomCache::read
TlbRead(pid, vpn) ==
  IF TableGet(private_table, <<pid, vpn>>) # {}
    THEN TableGet(private_table, <<pid, vpn>>)
    ELSE TableGet(global_table, vpn)

\* tlb_op with rb = r2: tlbr (op 0) moves the entry or 0 into rA unless
\* rA is r0; tlbw, tlbi and tlbc (ops 1, 2, 3) act on the TLB at the end
\* of the tick.
TlbOp(e, op, ra) ==
  LET vpn == GetReg(e, 2) \div 4096
      req == [pid |-> e.cregfile[1], vpn |-> vpn, v |-> 0, op |-> "read"]
      found == TlbRead(e.cregfile[1], vpn)
      after ==
        CASE op = 0 ->
               IF ra = 0 THEN e
               ELSE WriteReg([e EXCEPT !.tlbop = req], ra,
                             IF found = {} THEN 0
                                           ELSE CHOOSE v \in found : TRUE)
          [] op = 1 ->
               [e EXCEPT !.tlbop = [req EXCEPT !.op = "write",
                                               !.v = GetReg(e, ra)]]
          [] op = 2 -> [e EXCEPT !.tlbop = [req EXCEPT !.op = "invalidate"]]
          [] op = 3 -> [e EXCEPT !.tlbop = [req EXCEPT !.op = "clear"]]
  IN  [after EXCEPT !.pc = @ + 4]

\* crmv_op on the raw register slots: crA <- rB (op 0), rA <- crB (op 1),
\* crA <- crB (op 2), rA <- rB (op 3).
CrmvRaw(e, op, ra, rb) ==
  LET after ==
        CASE op = 0 -> WriteCreg(e, ra, e.regfile[rb])
          [] op = 1 -> IF ra # 0
                         THEN [e EXCEPT !.regfile[ra] = ReadCreg(e, rb)]
                         ELSE e
          [] op = 2 -> WriteCreg(e, ra, ReadCreg(e, rb))
          [] op = 3 -> IF ra # 0
                         THEN [e EXCEPT !.regfile[ra] = e.regfile[rb]]
                         ELSE e
  IN  [after EXCEPT !.pc = @ + 4]

\* ipi_op for one target: the payload is MBO; rA, unless it is r0,
\* receives what send_ipi returned.
CoreIpiOp(e, ra, success) ==
  LET called == [e EXCEPT !.sent = Append(@, e.cregfile[11])]
      after == IF ra # 0 THEN WriteReg(called, ra, success) ELSE called
  IN  [after EXCEPT !.pc = @ + 4]

\* kernel_instr in kernel mode: the match on the sub-op.
KernelDispatch(e, instr) ==
  CASE instr.op = "crmv" -> CrmvOp(e, instr.x, CrmvValue(instr.x, instr.y))
    [] instr.op = "mode" -> ModeOp(e, instr.x)
    [] instr.op = "rfe" -> Rfe(e, instr.x = 1)
    [] instr.op = "tlb" -> TlbOp(e, instr.x, instr.a)
    [] instr.op = "crmvraw" -> CrmvRaw(e, instr.x, instr.a, instr.y)
    [] instr.op = "ipi" -> CoreIpiOp(e, instr.a, instr.x)
    [] instr.op = "kernel" -> RaiseExcInstr(e)
    [] instr.op = "crmvbits" -> CrmvBits(e, instr.x, instr.y)

\* kernel_instr without the test of kmode.
KernelInstrUnchecked(e, instr) == KernelDispatch(e, instr)

\* kernel_instr: exec_priv from user mode, the two assert!s, the dispatch.
KernelInstr(e, instr) ==
  IF ~e.kmode
    THEN IF e.cregfile[0] # 0 THEN Panic(e) ELSE Enter(SaveState(e), 129)
  ELSE IF ~(e.cregfile[0] > 0) THEN Panic(e)
  ELSE KernelDispatch(e, instr)

\* to_le_bytes / from_le_bytes
ToLeBytes(v, n) == [i \in 1..n |-> (v \div (256 ^ (i - 1))) % 256]
RECURSIVE FromLeBytes(_)
FromLeBytes(bytes) ==
  IF bytes = <<>> THEN 0 ELSE Head(bytes) + (256 * FromLeBytes(Tail(bytes)))

MemByte(m, a) == IF a \in DOMAIN m THEN m[a] ELSE 0

\* mem_read8 / mem_read32 / mem_write8 / mem_write32 for the access sizes
\* 0 (byte) and 2 (word) of execute.
MemKind(is_load, size) ==
  IF is_load THEN (IF size = 0 THEN "read8" ELSE "read32")
             ELSE (IF size = 0 THEN "write8" ELSE "write32")

\* The effective address of mem_absolute with r_b = r2 and imm << z = 4.
EffectiveAddr(e, y) == IF y = 2 THEN e.regfile[2] ELSE e.regfile[2] + 4

\* mem_absolute with r_b = r2: every byte is translated, then the bytes
\* are read or written together; on a miss nothing else is done.
MemAbsolute(e, r_a, is_load, size, y) ==
  LET r_b_out == GetReg(e, 2)
      addr == EffectiveAddr(e, y)
      steps == MemTranslations(MemKind(is_load, size), addr)
      res == [i \in DOMAIN steps |->
                ConvertMemAddress(e.kmode, e.cregfile[1], steps[i][1],
                                  steps[i][2])]
      ok == \A i \in DOMAIN steps : res[i] # {}
      addrs == [i \in DOMAIN steps |-> CHOOSE p \in res[i] : TRUE]
      bytes == ToLeBytes(GetReg(e, r_a), Len(steps))
      loaded == FromLeBytes([i \in DOMAIN steps |-> MemByte(e.mem, addrs[i])])
      stored == [a \in DOMAIN e.mem \cup {addrs[i] : i \in DOMAIN steps} |->
                   IF \E i \in DOMAIN steps : addrs[i] = a
                     THEN bytes[CHOOSE i \in DOMAIN steps : addrs[i] = a]
                     ELSE e.mem[a]]
      after == IF is_load THEN WriteReg(e, r_a, loaded)
                          ELSE [e EXCEPT !.mem = stored]
  IN  IF ~ok
        THEN RaiseTlbMiss(e, addr)
        ELSE [(IF y \in {1, 2} THEN WriteReg(after, 2, r_b_out + 4)
                                ELSE after) EXCEPT !.pc = @ + 4]

\* A register value below 2^31 as a word of the ALU, and back.
ToWord(n) == <<n \div 65536, n % 65536>>
FromWord(w) == (w[1] * 65536) + w[2]

\* alu_op on the registers: rA <- rB op rC (register form, rC = r2) or
\* rA <- rB op 1 (immediate form).
AluInstr(e, imm, op, ra, rb) ==
  LET out == AluOp(e.cregfile[5], op, imm, ToWord(GetReg(e, rb)),
                   IF imm THEN <<0, 1>> ELSE ToWord(GetReg(e, 2)))
  IN  CASE out.status = "panic" -> Panic(RaiseExcInstr(e))
        [] out.status = "illegal" ->
             RaiseExcInstr([e EXCEPT !.cregfile[5] = out.flgAfter])
        [] out.status = "ok" ->
             [WriteReg(e, ra, FromWord(out.result)) EXCEPT
                !.cregfile[5] = out.flgAfter, !.pc = @ + 4]

\* load_upper_immediate
LoadUpperImmediate(e, ra, imm) ==
  [WriteReg(e, ra, imm * 1024) EXCEPT !.pc = @ + 4]

\* branch_absolute with r_b = r2: the link is written when the branch is
\* taken.
BranchAbsolute(e, op, ra) ==
  LET r_b == GetReg(e, 2)
      branch == GetBranchCondition(e.cregfile[5], op)
  IN  IF branch = {} THEN RaiseExcInstr(e)
      ELSE IF branch = {TRUE}
        THEN [WriteReg(e, ra, e.pc + 4) EXCEPT !.pc = r_b]
      ELSE [e EXCEPT !.pc = @ + 4]

\* atomic_absolute, fadd, with r_b = r2, r_c = r1 and imm = 0:
\* mem_atomic_add32 translates the aligned address for reading and for
\* writing and gives None unless both succeed and agree.
AtomicAbsolute(e, ra) ==
  LET addr == GetReg(e, 2)
      r_c_out == GetReg(e, 1)
      steps == MemTranslations("atomic_add32", addr)
      res == [i \in DOMAIN steps |->
                ConvertMemAddress(e.kmode, e.cregfile[1], steps[i][1],
                                  steps[i][2])]
      ok == res[1] # {} /\ res[2] # {} /\ res[1] = res[2]
      base == CHOOSE p \in res[1] : TRUE
      prev == FromLeBytes([i \in 1..4 |-> MemByte(e.mem, base + (i - 1))])
      next == ToLeBytes(prev + r_c_out, 4)
      stored == [a \in DOMAIN e.mem \cup {base + i : i \in 0..3} |->
                   IF a \in {base + i : i \in 0..3} THEN next[(a - base) + 1]
                                                     ELSE e.mem[a]]
  IN  IF ~ok
        THEN RaiseTlbMiss(e, addr)
        ELSE [WriteReg([e EXCEPT !.mem = stored], ra, prev) EXCEPT
                !.pc = @ + 4]

\* The instructions of opcode 31.
KernelOps == {"crmv", "mode", "rfe", "tlb", "crmvraw", "ipi", "kernel",
              "crmvbits"}

\* execute
Execute(e, instr) ==
  CASE instr.op = "sys" -> Syscall(e, instr.x)
    [] instr.op = "illegal" -> RaiseExcInstr(e)
    [] instr.op \in {"load", "store"} ->
         MemAbsolute(e, instr.a, instr.op = "load", instr.x, instr.y)
    [] instr.op \in {"alu", "alui"} ->
         AluInstr(e, instr.op = "alui", instr.x, instr.a, instr.y)
    [] instr.op = "lui" -> LoadUpperImmediate(e, instr.a, instr.x)
    [] instr.op = "branch" -> BranchAbsolute(e, instr.x, instr.a)
    [] instr.op = "atomic" -> AtomicAbsolute(e, instr.a)
    [] instr.op \in KernelOps -> KernelInstr(e, instr)

MaxOf(S) == CHOOSE m \in S : \A n \in S : n <= m

\* The wake-up of handle_interrupts with the pc left at the sleep.
WakeUpInPlace(e) == [e EXCEPT !.asleep = FALSE, !.sleep_armed = FALSE]

\* handle_interrupts, "undo sleep": mode sleep advances to the next
\* instruction.
WakeUp(e) ==
  [e EXCEPT !.pc = IF e.asleep /\ e.sleep_armed THEN @ + 4 ELSE @,
            !.asleep = FALSE, !.sleep_armed = FALSE]

\* check_for_interrupts: the bits taken from the controller and the timer
\* are ORed into the ISR; with the IPI bit among the pending ones the
\* payload is copied into MBI.
CheckForInterrupts(e, bits, payload) ==
  [e EXCEPT !.cregfile[10] = IF IPI_INTERRUPT_BIT \subseteq bits THEN payload ELSE @,
            !.cregfile[2] = @ \cup bits]

\* handle_interrupts
HandleInterrupts(e) ==
  IF 31 \notin e.cregfile[3]
    THEN e
    ELSE LET active_ints == e.cregfile[3] \cap e.cregfile[2]
             entered == [SaveState(WakeUp(e)) EXCEPT
                           !.cregfile[0] = @ + 1, !.kmode = TRUE,
                           !.cregfile[3] = @ \ {31}]
             low == active_ints \cap (0..15)
         IN  IF active_ints = {} THEN e
             ELSE IF low = {} THEN entered
             ELSE [entered EXCEPT !.pc = Vector(240 + MaxOf(low))]

\* What kind of exception the instruction of a tick entered, if any.
TrapKind(e1, instr, e2) ==
  IF e2.cregfile[0] <= e1.cregfile[0] \/ e2.panic THEN "none"
  ELSE IF instr.op = "none" THEN "tlb_miss"
  ELSE IF instr.op = "sys" THEN (IF instr.x = 1 THEN "sys_exit"
                                                ELSE "sys_other")
  ELSE IF instr.op \in {"illegal", "alu", "alui", "branch"} THEN "exc_instr"
  ELSE IF instr.op \in {"load", "store", "atomic"} THEN "tlb_miss"
  ELSE IF e1.kmode THEN "exc_instr"
  ELSE "exc_priv"

\* The TLB of the core at the start: empty, or holding the global entry
\* that maps page 0 onto itself for user reads and fetches (R, X, U, G).
CpuTlbs == {EmptyTable, [vpn \in {0} |-> 29]}
\* r2 at the start: a data address in page 0, and one that makes r2 + 4
\* the last halfword at or below PHYSMEM_MAX.
CpuBases == {2048, 134217722}

InitCpu ==
  /\ ParkedBus
  /\ ParkedSched
  /\ ParkedIntr
  /\ ParkedDev
  /\ private_table = EmptyTable
  /\ private_size = 0
  /\ global_table \in CpuTlbs
  /\ global_size = Cardinality(DOMAIN global_table)
  /\ tlbPanic = FALSE
  /\ lastMem = NoMem
  /\ pc = EmulatorNew.pc
  /\ kmode = EmulatorNew.kmode
  /\ cregfile = EmulatorNew.cregfile
  /\ asleep = EmulatorNew.asleep
  /\ sleep_armed = EmulatorNew.sleep_armed
  /\ \E base \in CpuBases :
       regfile = [EmulatorNew.regfile EXCEPT ![1] = 16909060, ![2] = base]
  /\ cmem = EmulatorNew.mem
  /\ cpuPanic = FALSE
  /\ cpuTicks = 0
  /\ lastTick = NoTick
  /\ lastEntry = NoEntry
  /\ slept = {}
  /\ coreHalted = EmulatorNew.halted
  /\ ipiLog = EmulatorNew.sent
  /\ ParkedAlu
  /\ ParkedSd
  /\ ParkedWatch
  /\ ParkedDma

\* What a tick leaves in the history variables.
TickHistory(e0, e1, e2, ran, instr) ==
  LET delivered == e1.cregfile[0] # e0.cregfile[0]
      trap == IF e1.asleep THEN "none" ELSE TrapKind(e1, instr, e2)
      intrEntry == [kind |-> "interrupt", pcBefore |-> e0.pc,
                    wasSleep |-> e0.asleep /\ e0.sleep_armed,
                    epc |-> e1.cregfile[4], psrBefore |-> e0.cregfile[0],
                    r31Before |-> GetReg(e0, 31), rawR31 |-> FALSE]
      trapEntry == [kind |-> trap, pcBefore |-> e1.pc, wasSleep |-> FALSE,
                    epc |-> e2.cregfile[4], psrBefore |-> e1.cregfile[0],
                    r31Before |-> GetReg(e1, 31), rawR31 |-> FALSE]
      entered == IF delivered THEN intrEntry ELSE lastEntry
      \* crmv rA, crB and crmv rA, rB with rA = r31 write the raw slot
      open == IF ran /\ e1.kmode /\ instr.op = "crmvraw"
                     /\ instr.x \in {1, 3} /\ instr.a = 31
                THEN [entered EXCEPT !.rawR31 = TRUE]
                ELSE entered
      returns == ran /\ instr.op = "rfe" /\ e1.kmode /\ ~e2.panic
  IN  [tick |-> [pre |-> e0, mid |-> e1, delivered |-> delivered,
                 ran |-> ran, instr |-> instr, trap |-> trap,
                 miss |-> IF trap # "tlb_miss" THEN "none"
                          ELSE IF ran THEN "data" ELSE "fetch",
                 missAddr |-> IF trap # "tlb_miss" THEN 0
                              ELSE IF ran THEN EffectiveAddr(e1, instr.y)
                              ELSE e1.pc,
                 returned |-> returns,
                 ret |-> IF returns THEN open ELSE NoEntry, ipi |-> {}],
       entry |-> IF trap # "none" THEN trapEntry
                 ELSE IF returns THEN NoEntry
                 ELSE open,
       slept |-> IF ran /\ e2.asleep THEN Some(e1.pc)
                 ELSE IF delivered THEN {}
                 ELSE slept]

\* tick: check_for_interrupts ORs the bits it took into the ISR,
\* handle_interrupts may enter a handler, and a core that is not asleep
\* fetches at pc and executes instr, or raises the TLB miss of the fetch.
CoreTick(bits, payload, instr) ==
  /\ ~cpuPanic
  /\ ~coreHalted
  /\ cpuTicks < MaxCpuTicks
  /\ \E e0 \in {CpuCur} :
     \E e1 \in {HandleInterrupts(CheckForInterrupts(e0, bits, payload))} :
     \E fetched \in {ConvertMemAddress(e1.kmode, e1.cregfile[1], e1.pc, 2)} :
     \E e2 \in {IF e1.asleep THEN e1
                ELSE IF fetched = {} THEN RaiseTlbMiss(e1, e1.pc)
                ELSE Execute(e1, instr)} :
     \E h \in {TickHistory(e0, e1, e2, ~e1.asleep /\ fetched # {},
                           IF ~e1.asleep /\ fetched # {} THEN instr
                                                         ELSE NoInstr)} :
       /\ pc' = e2.pc
       /\ kmode' = e2.kmode
       /\ cregfile' = e2.cregfile
       /\ asleep' = e2.asleep
       /\ sleep_armed' = e2.sleep_armed
       /\ regfile' = e2.regfile
       /\ cmem' = e2.mem
       /\ cpuPanic' = e2.panic
       /\ coreHalted' = e2.halted
       /\ ipiLog' = e2.sent
       /\ lastTick' = [h.tick EXCEPT
                          !.ipi = IF IPI_INTERRUPT_BIT \subseteq bits
                                    THEN Some(payload) ELSE {}]
       /\ lastEntry' = h.entry
       /\ slept' = h.slept
       /\ TlbCommit(e2.tlbop)
  /\ cpuTicks' = cpuTicks + 1
  /\ UNCHANGED <<busVars, schedVars, intrVars, devVars, aluVars, sdVars, watchVars, dmaVars>>

\* tick with no IPI among the pending bits
CpuTick(bits, instr) == CoreTick(bits, 0, instr)

\* The interrupt bits a tick's check_for_interrupts may take: none, or the
\* timer's.
TickBits == {{}, {0}}

\* sys EXIT and another sys code
TickSyscall ==
  \E bits \in TickBits, imm \in {1, 2} :
    /\ imm > 0
    /\ CpuTick(bits, [op |-> "sys", x |-> imm, y |-> 0, a |-> 1])
\* an opcode execute does not know
TickIllegal ==
  \E bits \in TickBits :
    /\ bits \subseteq {0}
    /\ CpuTick(bits, [op |-> "illegal", x |-> 0, y |-> 0, a |-> 1])
\* crmv PSR, r with r = 0; crmv PID, r with r = 1; crmv IMR, r with
\* r = 0x80000001
TickCrmv ==
  \E bits \in TickBits, idx \in {0, 1, 3} :
    /\ idx \in 0..11
    /\ CpuTick(bits, [op |-> "crmv", x |-> idx,
                      y |-> IF idx = 0 THEN 0 ELSE 1, a |-> 0])
\* mode run and mode sleep
TickMode ==
  \E bits \in TickBits, op \in {0, 1} :
    /\ op \in 0..1
    /\ CpuTick(bits, [op |-> "mode", x |-> op, y |-> 0, a |-> 1])
\* rfe and rfi
TickRfe ==
  \E bits \in TickBits, rfi \in {0, 1} :
    /\ rfi \in 0..1
    /\ CpuTick(bits, [op |-> "rfe", x |-> rfi, y |-> 0, a |-> 1])
\* a 32-bit load into r1 from r2 + 4 with pre-increment of r2
TickLoad ==
  \E bits \in TickBits :
    /\ bits \subseteq {0}
    /\ CpuTick(bits, [op |-> "load", x |-> 2, y |-> 1, a |-> 1])
\* a 32-bit store of r1 at r2 with post-increment of r2
TickStore ==
  \E bits \in TickBits :
    /\ bits \subseteq {0}
    /\ CpuTick(bits, [op |-> "store", x |-> 2, y |-> 2, a |-> 1])

NextCpu ==
  \/ TickSyscall
  \/ TickIllegal
  \/ TickCrmv
  \/ TickMode
  \/ TickRfe
  \/ TickLoad
  \/ TickStore

SpecCpu == InitCpu /\ [][NextCpu]_vars

(***************************************************************************)
(* A core from its construction: core 0 or a secondary core, with the      *)
(* interrupt bits and IPI payloads its polls take and a kernel program     *)
(* that writes ISR and IMR.                                                *)
(***************************************************************************)
BootCoreIds == {0, 1}

\* from_shared with every core running at once
FromSharedAwake(core_id) ==
  [EmulatorNew EXCEPT !.cregfile[9] = core_id,
                      !.cregfile[3] = IF core_id # 0
                                        THEN {31} \cup IPI_INTERRUPT_BIT ELSE @]

\* from_shared
FromShared(core_id) ==
  [EmulatorNew EXCEPT !.cregfile[9] = core_id,
                      !.cregfile[3] = IF core_id # 0
                                        THEN {31} \cup IPI_INTERRUPT_BIT ELSE @,
                      !.asleep = core_id # 0]

InitBoot ==
  /\ ParkedBus
  /\ ParkedSched
  /\ ParkedIntr
  /\ ParkedDev
  /\ ParkedTlb
  /\ ParkedAlu
  /\ ParkedSd
  /\ ParkedWatch
  /\ ParkedDma
  /\ \E core_id \in BootCoreIds :
       /\ pc = FromShared(core_id).pc
       /\ kmode = FromShared(core_id).kmode
       /\ cregfile = FromShared(core_id).cregfile
       /\ asleep = FromShared(core_id).asleep
       /\ sleep_armed = FromShared(core_id).sleep_armed
       /\ regfile = FromShared(core_id).regfile
       /\ cmem = FromShared(core_id).mem
       /\ coreHalted = FromShared(core_id).halted
       /\ ipiLog = FromShared(core_id).sent
  /\ cpuPanic = FALSE
  /\ cpuTicks = 0
  /\ lastTick = NoTick
  /\ lastEntry = NoEntry
  /\ slept = {}

\* The bits a poll may take besides the IPI: none, the timer's, the SD
\* card's.
BootBits == {{}, {0}, {3}}
BootPayloads == {7, 9}
\* The values the program writes to IMR and ISR: nothing, the timer with
\* and without the global enable, lines 3 and 15, bit 16, bit 31 alone.
BootMasks == {{}, {0}, {31, 0}, {31, 3, 15}, {31, 16}, {31, 16, 3}, {31}}
BootIsrs == {{}, {0}, {3, 15}, {16}, {16, 3}, {31}}

\* a tick whose poll takes no IPI; the instruction is mode run
BootTick ==
  \E bits \in BootBits :
    /\ bits \cap IPI_INTERRUPT_BIT = {}
    /\ CoreTick(bits, 0, [op |-> "mode", x |-> 0, y |-> 0, a |-> 1])
\* a tick whose poll takes an IPI with its payload
BootIpi ==
  \E bits \in BootBits, payload \in BootPayloads :
    /\ payload > 0
    /\ CoreTick(bits \cup IPI_INTERRUPT_BIT, payload,
                [op |-> "mode", x |-> 0, y |-> 0, a |-> 1])
\* crmv IMR, r
BootSetImr ==
  \E value \in BootMasks :
    /\ value \subseteq 0..31
    /\ CoreTick({}, 0, [op |-> "crmvbits", x |-> 3, y |-> value, a |-> 0])
\* crmv ISR, r
BootSetIsr ==
  \E value \in BootIsrs :
    /\ value \subseteq 0..31
    /\ CoreTick({}, 0, [op |-> "crmvbits", x |-> 2, y |-> value, a |-> 0])
\* mode sleep
BootSleep ==
  \E bits \in {{}} :
    /\ bits = {}
    /\ CoreTick(bits, 0, [op |-> "mode", x |-> 1, y |-> 0, a |-> 1])

NextBoot ==
  \/ BootTick
  \/ BootIpi
  \/ BootSetImr
  \/ BootSetIsr
  \/ BootSleep

SpecBoot == InitBoot /\ [][NextBoot]_vars

(***************************************************************************)
(* The same core running the register-writing, undefined and privileged    *)
(* instructions, from kernel mode at boot and from user mode, without      *)
(* interrupts.  r2 holds a data address of page 0, which the TLB maps for  *)
(* user reads and fetches.                                                 *)
(***************************************************************************)
\* Where the runs start: the boot state, and user mode at address 0 as an
\* rfe with EPC = 0 leaves the core.
IsaStarts == {[kmode |-> TRUE, psr |-> 1, pc |-> 1024, imr |-> {}],
              [kmode |-> FALSE, psr |-> 0, pc |-> 0, imr |-> {0, 31}]}

InitIsa ==
  /\ ParkedBus
  /\ ParkedSched
  /\ ParkedIntr
  /\ ParkedDev
  /\ ParkedAlu
  /\ ParkedSd
  /\ ParkedWatch
  /\ ParkedDma
  /\ private_table = EmptyTable
  /\ private_size = 0
  /\ global_table = [vpn \in {0} |-> 29]
  /\ global_size = 1
  /\ tlbPanic = FALSE
  /\ lastMem = NoMem
  /\ \E start \in IsaStarts :
       /\ pc = start.pc
       /\ kmode = start.kmode
       /\ cregfile = [EmulatorNew.cregfile EXCEPT ![0] = start.psr,
                                                 ![3] = start.imr, ![8] = 88]
  /\ asleep = FALSE
  /\ sleep_armed = FALSE
  /\ regfile = [EmulatorNew.regfile EXCEPT ![1] = 7, ![2] = 2048, ![31] = 77]
  /\ cmem = EmulatorNew.mem
  /\ cpuPanic = FALSE
  /\ cpuTicks = 0
  /\ lastTick = NoTick
  /\ lastEntry = NoEntry
  /\ slept = {}
  /\ coreHalted = FALSE
  /\ ipiLog = <<>>

\* add rA, rB, r2 / add rA, rB, 1 and the same with an undefined op field,
\* as <<immediate form, op, rA, rB>>
IsaAluForms == {<<FALSE, 14, 0, 31>>, <<FALSE, 14, 31, 31>>,
                <<FALSE, 22, 31, 1>>, <<TRUE, 14, 31, 1>>,
                <<TRUE, 19, 31, 1>>}
IsaAlu ==
  \E f \in IsaAluForms :
    /\ f[2] \in 0..31
    /\ CpuTick({}, [op |-> IF f[1] THEN "alui" ELSE "alu", x |-> f[2],
                    y |-> f[4], a |-> f[3]])
\* lui rA, 3
IsaLui ==
  \E a \in {0, 31} :
    /\ a \in 0..31
    /\ CpuTick({}, [op |-> "lui", x |-> 3, y |-> 0, a |-> a])
\* a 32-bit load into rA from r2 + 4
IsaLoad ==
  \E a \in {0, 31} :
    /\ a \in 0..31
    /\ CpuTick({}, [op |-> "load", x |-> 2, y |-> 0, a |-> a])
\* br rA, r2 and the same with an undefined condition, as <<op, rA>>
IsaBranchForms == {<<0, 0>>, <<0, 31>>, <<19, 31>>}
IsaBranch ==
  \E f \in IsaBranchForms :
    /\ f[1] \in 0..31
    /\ CpuTick({}, [op |-> "branch", x |-> f[1], y |-> 0, a |-> f[2]])
\* fadd rA, r1, [r2]
IsaAtomic ==
  \E a \in {0, 31} :
    /\ a \in 0..31
    /\ CpuTick({}, [op |-> "atomic", x |-> 0, y |-> 2, a |-> a])
\* tlbr rA, r2; tlbw r31, r2; tlbc, as <<op, rA>>
IsaTlbForms == {<<0, 0>>, <<0, 31>>, <<1, 31>>, <<3, 0>>}
IsaTlb ==
  \E f \in IsaTlbForms :
    /\ f[1] \in 0..3
    /\ CpuTick({}, [op |-> "tlb", x |-> f[1], y |-> 0, a |-> f[2]])
\* ipi rA, 1 with send_ipi returning true
IsaIpi ==
  \E a \in {0, 31} :
    /\ a \in 0..31
    /\ CpuTick({}, [op |-> "ipi", x |-> 1, y |-> 0, a |-> a])
\* crmv cr6, r31; crmv rA, cr8; crmv rA, r1, as <<op, rA or crA, rB or crB>>
IsaCrmvForms == {<<0, 6, 31>>, <<1, 0, 8>>, <<1, 31, 8>>, <<3, 0, 1>>,
                 <<3, 31, 1>>}
IsaCrmv ==
  \E f \in IsaCrmvForms :
    /\ f[1] \in 0..3
    /\ CpuTick({}, [op |-> "crmvraw", x |-> f[1], y |-> f[3], a |-> f[2]])
\* opcode 31 with sub-op 5, and an opcode execute does not know
IsaUndefined ==
  \E op \in {"kernel", "illegal"} :
    /\ op # "none"
    /\ CpuTick({}, [op |-> op, x |-> 5, y |-> 0, a |-> 0])
\* mode sleep and mode halt
IsaMode ==
  \E op \in {1, 2} :
    /\ op \in 0..3
    /\ CpuTick({}, [op |-> "mode", x |-> op, y |-> 0, a |-> 0])
\* sys EXIT
IsaSyscall ==
  \E imm \in {1} :
    /\ imm \in 0..255
    /\ CpuTick({}, [op |-> "sys", x |-> imm, y |-> 0, a |-> 0])
\* rfe
IsaRfe ==
  \E rfi \in {0} :
    /\ rfi \in 0..1
    /\ CpuTick({}, [op |-> "rfe", x |-> rfi, y |-> 0, a |-> 0])

NextIsa ==
  \/ IsaAlu
  \/ IsaLui
  \/ IsaLoad
  \/ IsaBranch
  \/ IsaAtomic
  \/ IsaTlb
  \/ IsaIpi
  \/ IsaCrmv
  \/ IsaUndefined
  \/ IsaMode
  \/ IsaSyscall
  \/ IsaRfe

SpecIsa == InitIsa /\ [][NextIsa]_vars

(***************************************************************************)
(* The SD card's DMA engine behind the bus: byte reads and writes of RAM   *)
(* and of the engine's registers, and tick_sd_dma.  The addresses of the   *)
(* model lie in RAM below IO_START or in the first SD card's register      *)
(* block, and every byte is below 128, so that a register stays below     *)
(* 2^31.                                                                   *)
(***************************************************************************)
SD_BLOCK_SIZE == 512
PIT_START == 134109188
SD_DMA_BYTES_PER_TICK == 4
SD_DMA_MEM_ADDR == 134109200
SD_DMA_OFFSET_MEM_ADDR == 0
SD_DMA_OFFSET_SD_BLOCK == 4
SD_DMA_OFFSET_LEN == 8
SD_DMA_OFFSET_CTRL == 12
SD_DMA_OFFSET_STATUS == 16
SD_DMA_OFFSET_ERR == 20
SD_DMA_RANGE_SIZE == 24
SD_DMA_CTRL_START == 1
SD_DMA_CTRL_DIR_RAM_TO_SD == 2
SD_DMA_CTRL_IRQ_ENABLE == 4
SD_DMA_STATUS_BUSY == 1
SD_DMA_STATUS_DONE == 2
SD_DMA_STATUS_ERR == 4
SD_DMA_ERR_NONE == 0
SD_DMA_ERR_BUSY == 1
SD_DMA_ERR_ZERO_LEN == 2

\* value | mask and value & !mask for a one-bit mask.
SetBit(value, mask) == IF HasBit(value, mask) THEN value ELSE value + mask
ClearBit(value, mask) == IF HasBit(value, mask) THEN value - mask ELSE value

\* read_reg_byte
ReadRegByte(value, addr, base) == (value \div (256 ^ (addr - base))) % 256

\* write_reg_byte with the bytes of the register in big-endian order.
WriteRegByteBigEndian(reg, addr, base, value) ==
  LET shift == 3 - (addr - base)
      below == reg % (256 ^ shift)
      above == IF shift = 3 THEN 0
               ELSE (reg \div (256 ^ (shift + 1))) * (256 ^ (shift + 1))
  IN  below + (value * (256 ^ shift)) + above

\* write_reg_byte
WriteRegByte(reg, addr, base, value) ==
  LET shift == addr - base
      below == reg % (256 ^ shift)
      above == IF shift = 3 THEN 0
               ELSE (reg \div (256 ^ (shift + 1))) * (256 ^ (shift + 1))
  IN  below + (value * (256 ^ shift)) + above

\* Is addr in the register of the block that starts at offset?
SdReg(addr, offset) ==
  addr >= SD_DMA_MEM_ADDR + offset /\ addr < SD_DMA_MEM_ADDR + offset + 4

SdRange(addr) ==
  addr >= SD_DMA_MEM_ADDR /\ addr < SD_DMA_MEM_ADDR + SD_DMA_RANGE_SIZE

\* start_dma with a START that is accepted also while a transfer runs
\* and also for a length of 0.
StartDmaUnchecked(s) ==
  [sd |-> [s EXCEPT !.dma_mem_cursor = s.dma_mem_addr - (s.dma_mem_addr % 4),
                    !.dma_sd_byte_cursor = s.dma_sd_block * SD_BLOCK_SIZE,
                    !.dma_remaining = s.dma_len - (s.dma_len % 4),
                    !.dma_err = SD_DMA_ERR_NONE,
                    !.dma_status = SD_DMA_STATUS_BUSY,
                    !.dma_active = TRUE,
                    !.dma_tick_countdown = 0],
   interrupt |-> FALSE]

\* start_dma: the registers as they are start a transfer, unless one is
\* running or the length is 0; the result says whether to interrupt now.
StartDma(s) ==
  LET irq_enable == HasBit(s.dma_ctrl, SD_DMA_CTRL_IRQ_ENABLE)
      is_busy == HasBit(s.dma_status, SD_DMA_STATUS_BUSY)
      len == s.dma_len - (s.dma_len % 4)
  IN  IF is_busy
        THEN [sd |-> [s EXCEPT !.dma_err = SD_DMA_ERR_BUSY,
                               !.dma_status = SetBit(@, SD_DMA_STATUS_ERR)],
              interrupt |-> FALSE]
      ELSE IF len = 0
        THEN [sd |-> [s EXCEPT !.dma_err = SD_DMA_ERR_ZERO_LEN,
                               !.dma_status = SD_DMA_STATUS_DONE
                                                + SD_DMA_STATUS_ERR,
                               !.dma_active = FALSE],
              interrupt |-> irq_enable]
      ELSE StartDmaUnchecked(s)

\* clear_status
ClearStatus(s) ==
  [s EXCEPT !.dma_status = ClearBit(ClearBit(@, SD_DMA_STATUS_DONE),
                                    SD_DMA_STATUS_ERR),
            !.dma_err = SD_DMA_ERR_NONE]

\* read_sd_dma_mmio for an address of the block
ReadSdDmaMmio(s, addr) ==
  IF SdReg(addr, SD_DMA_OFFSET_MEM_ADDR)
    THEN ReadRegByte(s.dma_mem_addr, addr,
                     SD_DMA_MEM_ADDR + SD_DMA_OFFSET_MEM_ADDR)
  ELSE IF SdReg(addr, SD_DMA_OFFSET_SD_BLOCK)
    THEN ReadRegByte(s.dma_sd_block, addr,
                     SD_DMA_MEM_ADDR + SD_DMA_OFFSET_SD_BLOCK)
  ELSE IF SdReg(addr, SD_DMA_OFFSET_LEN)
    THEN ReadRegByte(s.dma_len, addr, SD_DMA_MEM_ADDR + SD_DMA_OFFSET_LEN)
  ELSE IF SdReg(addr, SD_DMA_OFFSET_CTRL)
    THEN ReadRegByte(s.dma_ctrl, addr, SD_DMA_MEM_ADDR + SD_DMA_OFFSET_CTRL)
  ELSE IF SdReg(addr, SD_DMA_OFFSET_STATUS)
    THEN ReadRegByte(IF s.dma_err # SD_DMA_ERR_NONE
                       THEN SetBit(s.dma_status, SD_DMA_STATUS_ERR)
                       ELSE ClearBit(s.dma_status, SD_DMA_STATUS_ERR),
                     addr, SD_DMA_MEM_ADDR + SD_DMA_OFFSET_STATUS)
  ELSE ReadRegByte(s.dma_err, addr, SD_DMA_MEM_ADDR + SD_DMA_OFFSET_ERR)

\* The bus and the card as one value.
SdCur == [sd |-> sd, ram |-> sdRam, storage |-> sdStorage, irq |-> sdIrq]

\* write_sd_dma_mmio for an address of the block
WriteSdDmaMmio(m, addr, data) ==
  IF SdReg(addr, SD_DMA_OFFSET_MEM_ADDR)
    THEN [m EXCEPT !.sd.dma_mem_addr =
            WriteRegByte(@, addr, SD_DMA_MEM_ADDR + SD_DMA_OFFSET_MEM_ADDR,
                         data)]
  ELSE IF SdReg(addr, SD_DMA_OFFSET_SD_BLOCK)
    THEN [m EXCEPT !.sd.dma_sd_block =
            WriteRegByte(@, addr, SD_DMA_MEM_ADDR + SD_DMA_OFFSET_SD_BLOCK,
                         data)]
  ELSE IF SdReg(addr, SD_DMA_OFFSET_LEN)
    THEN [m EXCEPT !.sd.dma_len =
            WriteRegByte(@, addr, SD_DMA_MEM_ADDR + SD_DMA_OFFSET_LEN, data)]
  ELSE IF SdReg(addr, SD_DMA_OFFSET_CTRL)
    THEN LET written == WriteRegByte(m.sd.dma_ctrl, addr,
                                     SD_DMA_MEM_ADDR + SD_DMA_OFFSET_CTRL,
                                     data) % 8
             should_start == HasBit(written, SD_DMA_CTRL_START)
             started == StartDma([m.sd EXCEPT !.dma_ctrl =
                                    ClearBit(written, SD_DMA_CTRL_START)])
         IN  IF should_start
               THEN [m EXCEPT !.sd = started.sd,
                              !.irq = @ \/ started.interrupt]
               ELSE [m EXCEPT !.sd.dma_ctrl = written]
  ELSE IF SdReg(addr, SD_DMA_OFFSET_STATUS)
    THEN [m EXCEPT !.sd = ClearStatus(@)]
  ELSE m

\* read_internal, for RAM and the SD block
ReadInternal(m, addr) ==
  IF SdRange(addr) THEN ReadSdDmaMmio(m.sd, addr) ELSE MemByte(m.ram, addr)

\* write_internal, for RAM and the SD block
WriteInternal(m, addr, data) ==
  IF SdRange(addr) THEN WriteSdDmaMmio(m, addr, data)
  ELSE [m EXCEPT !.ram = [a \in DOMAIN @ \cup {addr} |->
                            IF a = addr THEN data ELSE @[a]]]

\* write_internal for addr, addr + 1, ... in turn
RECURSIVE WriteEach(_, _, _)
WriteEach(m, addr, bytes) ==
  IF bytes = <<>> THEN m
  ELSE WriteEach(WriteInternal(m, addr, Head(bytes)), addr + 1, Tail(bytes))

\* A card that drops what is written to it.
WriteStorageDropped(storage, offset, bytes) == storage

\* write_storage_byte for offset, offset + 1, ...; read_storage_byte
WriteStorage(storage, offset, bytes) ==
  [o \in DOMAIN storage \cup {offset + (i - 1) : i \in DOMAIN bytes} |->
     IF o >= offset /\ o < offset + Len(bytes) THEN bytes[(o - offset) + 1]
                                               ELSE storage[o]]

\* tick_sd_dma_device
TickSdDmaDevice(m) ==
  LET s == m.sd
      bytes == IF s.dma_remaining < SD_DMA_BYTES_PER_TICK
                 THEN s.dma_remaining ELSE SD_DMA_BYTES_PER_TICK
      mem_addr == s.dma_mem_cursor
      sd_offset == s.dma_sd_byte_cursor
      dir_ram_to_sd == HasBit(s.dma_ctrl, SD_DMA_CTRL_DIR_RAM_TO_SD)
      done_after == s.dma_remaining - bytes = 0
      irq_enable == HasBit(s.dma_ctrl, SD_DMA_CTRL_IRQ_ENABLE)
      moved == [s EXCEPT
                  !.dma_tick_countdown =
                     IF s.dma_ticks_per_word > 0
                       THEN s.dma_ticks_per_word - 1 ELSE 0,
                  !.dma_mem_cursor = @ + bytes,
                  !.dma_sd_byte_cursor = @ + bytes,
                  !.dma_remaining = @ - bytes,
                  !.dma_active = IF done_after THEN FALSE ELSE @,
                  !.dma_status =
                     IF ~done_after THEN @
                     ELSE LET ended == SetBit(ClearBit(@, SD_DMA_STATUS_BUSY),
                                              SD_DMA_STATUS_DONE)
                          IN  IF s.dma_err # SD_DMA_ERR_NONE
                                THEN SetBit(ended, SD_DMA_STATUS_ERR)
                                ELSE ended]
      accounted == [m EXCEPT !.sd = moved]
      fromRam == [i \in 1..bytes |->
                    ReadInternal(accounted, mem_addr + (i - 1))]
      fromSd == [i \in 1..bytes |->
                   MemByte(m.storage, sd_offset + (i - 1))]
      copied == IF dir_ram_to_sd
                  THEN [accounted EXCEPT
                          !.storage = WriteStorage(@, sd_offset, fromRam)]
                  ELSE WriteEach(accounted, mem_addr, fromSd)
  IN  IF ~s.dma_active THEN m
      ELSE IF s.dma_tick_countdown > 0
        THEN [m EXCEPT !.sd.dma_tick_countdown = @ - 1]
      ELSE IF bytes = 0 THEN accounted
      ELSE [copied EXCEPT !.irq = @ \/ (done_after /\ irq_enable)]

\* The SD image loaded before the run (load_image): its first word is 1,
\* the rest reads as 0.
SdImage == [o \in 0..3 |-> IF o = 0 THEN 1 ELSE 0]

InitSd ==
  /\ ParkedBus
  /\ ParkedSched
  /\ ParkedIntr
  /\ ParkedDev
  /\ ParkedTlb
  /\ ParkedCpu
  /\ ParkedAlu
  /\ ParkedWatch
  /\ ParkedDma
  /\ \E per_word \in {1, 2} :
       sd = [SdCardNew EXCEPT !.dma_ticks_per_word = per_word]
  /\ sdRam = EmptyTable
  /\ sdStorage = SdImage
  /\ sdIrq = FALSE
  /\ sdOps = 0
  /\ sdLast = NoSdOp

\* One call of the bus or one device tick, with what it was and returned.
SdStep(m, op) ==
  /\ sdOps < MaxSdOps
  /\ sd' = m.sd
  /\ sdRam' = m.ram
  /\ sdStorage' = m.storage
  /\ sdIrq' = m.irq
  /\ sdOps' = sdOps + 1
  /\ sdLast' = op
  /\ UNCHANGED <<busVars, schedVars, intrVars, devVars, tlbVars, cpuVars,
                 aluVars, watchVars, dmaVars>>

\* The byte writes of the model, as <<address, data>>: a RAM byte, the
\* low bytes of MEM_ADDR, SD_BLOCK and LEN, and CTRL, STATUS and ERR.
SdByteWrites ==
  ({256, SD_DMA_MEM_ADDR + SD_DMA_OFFSET_MEM_ADDR,
    SD_DMA_MEM_ADDR + SD_DMA_OFFSET_SD_BLOCK,
    SD_DMA_MEM_ADDR + SD_DMA_OFFSET_LEN,
    SD_DMA_MEM_ADDR + SD_DMA_OFFSET_STATUS,
    SD_DMA_MEM_ADDR + SD_DMA_OFFSET_ERR} \X {1, 6})
  \cup ({SD_DMA_MEM_ADDR + SD_DMA_OFFSET_CTRL} \X {1, 3, 6, 12})

\* The call before this one, for a read to remember.
SdPrevious == [kind |-> sdLast.kind, addr |-> sdLast.addr,
               data |-> sdLast.data]

\* Memory::write
SdWrite ==
  \E w \in SdByteWrites :
    /\ w[2] \in 0..127
    /\ SdStep(WriteInternal(SdCur, w[1], w[2]),
              [kind |-> "write", addr |-> w[1], data |-> <<w[2]>>,
               readBack |-> <<>>, after |-> NoSdCall])

\* Memory::read
SdRead ==
  \E addr \in {w[1] : w \in SdByteWrites} :
    /\ addr <= PHYSMEM_MAX
    /\ SdStep(SdCur, [kind |-> "read", addr |-> addr, data |-> <<>>,
                      readBack |-> <<ReadInternal(SdCur, addr)>>,
                      after |-> SdPrevious])

\* The four-byte writes of the model, as <<address, bytes>>.
SdWordWrites ==
  {<<256, <<4, 3, 2, 1>> >>,
   <<SD_DMA_MEM_ADDR + SD_DMA_OFFSET_SD_BLOCK, <<4, 3, 2, 0>> >>,
   <<SD_DMA_MEM_ADDR + SD_DMA_OFFSET_MEM_ADDR,
     ToLeBytes(SD_DMA_MEM_ADDR + SD_DMA_OFFSET_CTRL, 4)>>,
   <<SD_DMA_MEM_ADDR + SD_DMA_OFFSET_LEN, <<8, 0, 0, 0>> >>}

\* Memory::write_phys_bytes with four consecutive addresses, as mem_write32
\* calls it.
SdWritePhysBytes ==
  \E w \in SdWordWrites :
    /\ Len(w[2]) = 4
    /\ SdStep(WriteEach(SdCur, w[1], w[2]),
              [kind |-> "write", addr |-> w[1], data |-> w[2],
               readBack |-> <<>>, after |-> NoSdCall])

\* Memory::read_phys_bytes with four consecutive addresses, as mem_read32
\* calls it.
SdReadPhysBytes ==
  \E addr \in {w[1] : w \in SdWordWrites}
                \cup {SD_DMA_MEM_ADDR + SD_DMA_OFFSET_STATUS} :
    /\ addr + 3 <= PHYSMEM_MAX
    /\ SdStep(SdCur, [kind |-> "read", addr |-> addr, data |-> <<>>,
                      readBack |-> [i \in 1..4 |->
                                      ReadInternal(SdCur, addr + (i - 1))],
                      after |-> SdPrevious])

\* Memory::tick_sd_dma for the first card
SdTick ==
  /\ \A i \in 0..3 : LET a == sd.dma_mem_cursor + i
                     IN  a < 65536 \/ SdRange(a)
  /\ SdStep(TickSdDmaDevice(SdCur),
            [kind |-> "tick", addr |-> 0, data |-> <<>>, readBack |-> <<>>,
             after |-> NoSdCall])

NextSd ==
  \/ SdWrite
  \/ SdRead
  \/ SdWritePhysBytes
  \/ SdReadPhysBytes
  \/ SdTick

SpecSd == InitSd /\ [][NextSd]_vars

(***************************************************************************)
(* One SD engine followed from START to completion.  The registers are     *)
(* written a word at a time, as mem_write32 does; the device thread ticks  *)
(* as often as it likes.  xfer records what could be observed from         *)
(* outside: the registers at the START that launched the transfer, and     *)
(* which bytes of RAM and of the card changed at which tick.               *)
(***************************************************************************)
\* The program loaded into RAM and the image loaded into the card: every
\* byte differs from every byte it can be copied over.
DmaRamImage == [a \in (0..7) \cup (4096..4103) |->
                 IF a < 8 THEN 31 + a ELSE 11 + (a - 4096)]
DmaSdImage == [o \in (0..7) \cup (512..519) |->
                IF o < 8 THEN 1 + o ELSE 21 + (o - 512)]

InitDma ==
  /\ ParkedBus
  /\ ParkedSched
  /\ ParkedIntr
  /\ ParkedDev
  /\ ParkedTlb
  /\ ParkedCpu
  /\ ParkedAlu
  /\ ParkedWatch
  /\ ParkedDma
  /\ \E per_word \in {1, 2} :
       sd = [SdCardNew EXCEPT !.dma_ticks_per_word = per_word]
  /\ sdRam = DmaRamImage
  /\ sdStorage = DmaSdImage
  /\ sdIrq = FALSE
  /\ sdOps = 0
  /\ sdLast = NoSdOp

\* The addresses where a table differs from what it was.
Changed(old, new) ==
  {a \in DOMAIN new : a \notin DOMAIN old \/ old[a] # new[a]}

\* What the registers before a write of CTRL say the transfer will be.
Launched(m, ctrl, n) ==
  [NoXfer EXCEPT !.phase = "active",
                 !.starts = n,
                 !.len = m.sd.dma_len - (m.sd.dma_len % 4),
                 !.mem = m.sd.dma_mem_addr - (m.sd.dma_mem_addr % 4),
                 !.off = m.sd.dma_sd_block * SD_BLOCK_SIZE,
                 !.dir = HasBit(ctrl, SD_DMA_CTRL_DIR_RAM_TO_SD),
                 !.irq = HasBit(ctrl, SD_DMA_CTRL_IRQ_ENABLE)]

\* xfer after a step from m to m2: reg is the register written, or "tick";
\* ctrl is the value written when reg is CTRL.
Observe(m, m2, reg, ctrl) ==
  LET ramDiff == Changed(m.ram, m2.ram)
      stoDiff == Changed(m.storage, m2.storage)
      moved == ramDiff # {} \/ stoDiff # {}
      tick == reg = "tick"
      ended == m.sd.dma_active /\ ~m2.sd.dma_active
      launch == /\ reg = "CTRL"
                /\ HasBit(ctrl, SD_DMA_CTRL_START)
                /\ ~HasBit(m.sd.dma_status, SD_DMA_STATUS_BUSY)
                /\ m.sd.dma_len - (m.sd.dma_len % 4) > 0
  IN  IF launch
        THEN Launched(m, ctrl, IF xfer.starts < 2 THEN xfer.starts + 1 ELSE 2)
      ELSE IF xfer.phase = "active"
        THEN [xfer EXCEPT
                !.ticks = IF tick THEN @ + 1 ELSE @,
                !.moves = IF moved
                            THEN Append(@, [tick |-> IF tick
                                                       THEN xfer.ticks + 1
                                                       ELSE 0,
                                            ram |-> ramDiff,
                                            sto |-> stoDiff])
                            ELSE @,
                !.touched = IF tick THEN @ ELSE @ \cup {reg},
                !.phase = IF ended THEN "done" ELSE @,
                !.statusAtEnd = IF ended THEN m2.sd.dma_status ELSE @,
                !.irqBefore = IF ended THEN m.irq ELSE @,
                !.irqAfter = IF ended THEN m2.irq ELSE @]
      ELSE IF xfer.phase = "done"
        THEN [xfer EXCEPT !.lateMoves = @ \/ (tick /\ moved)]
      ELSE xfer

\* One step of the engine and what it showed.
DmaStep(m2, reg, ctrl, writes) ==
  /\ sd' = m2.sd
  /\ sdRam' = m2.ram
  /\ sdStorage' = m2.storage
  /\ sdIrq' = m2.irq
  /\ sdOps' = sdOps + writes
  /\ xfer' = Observe(SdCur, m2, reg, ctrl)
  /\ UNCHANGED <<busVars, schedVars, intrVars, devVars, tlbVars, cpuVars,
                 aluVars, watchVars, sdLast, thr, locks, seen, pitState>>

\* The words a core writes to MEM_ADDR, SD_BLOCK and LEN.
DmaWordWrites ==
  {<<"MEM_ADDR", SD_DMA_OFFSET_MEM_ADDR, 4098>>,
   <<"SD_BLOCK", SD_DMA_OFFSET_SD_BLOCK, 1>>,
   <<"LEN", SD_DMA_OFFSET_LEN, 4>>,
   <<"LEN", SD_DMA_OFFSET_LEN, 10>>}

\* The words a core writes to CTRL: START alone, with DIR, with IRQ_EN,
\* and DIR without START.
DmaCtrlWrites == {1, 3, 5, 2}

\* mem_write32 of a word to MEM_ADDR, SD_BLOCK or LEN
DmaProgram ==
  \E w \in DmaWordWrites :
    /\ sdOps < MaxDmaWrites
    /\ \E m2 \in {WriteEach(SdCur, SD_DMA_MEM_ADDR + w[2],
                             ToLeBytes(w[3], 4))} :
         DmaStep(m2, w[1], 0, 1)

\* mem_write32 of a word to CTRL
DmaControl ==
  \E c \in DmaCtrlWrites :
    /\ sdOps < MaxDmaWrites
    /\ \E m2 \in {WriteEach(SdCur, SD_DMA_MEM_ADDR + SD_DMA_OFFSET_CTRL,
                             ToLeBytes(c, 4))} :
         DmaStep(m2, "CTRL", c, 1)

\* Memory::tick_sd_dma for the first card
DmaTick ==
  /\ sd.dma_mem_cursor < PHYSMEM_MAX
  /\ \E m2 \in {TickSdDmaDevice(SdCur)} : DmaStep(m2, "tick", 0, 0)

NextDma ==
  \/ DmaProgram
  \/ DmaControl
  \/ DmaTick

SpecDma == InitDma /\ [][NextDma]_vars

\* The device thread keeps ticking.
FairSpecDma == SpecDma /\ WF_vars(DmaTick)

(***************************************************************************)
(* The bus with its locks.  Two cores and a device thread call Memory;     *)
(* each call is the list of its lock acquisitions, guard drops and the     *)
(* work done in between, taken one step at a time, so that the calls       *)
(* interleave wherever the locks allow.  A Mutex is a lock only ever       *)
(* taken for writing.                                                      *)
(***************************************************************************)
Lock(l, how) == <<"lock", l, how>>
Unlock(l) == <<"unlock", l, "">>
Do(e) == <<"do", e, "">>

\* RwLock::read and RwLock::write, Mutex::lock; a guard going out of scope
CanTake(L, l, how) ==
  IF how = "w" THEN L[l].w = "none" /\ L[l].r = {} ELSE L[l].w = "none"
Take(L, l, how, t) ==
  [L EXCEPT ![l] = IF how = "w" THEN [@ EXCEPT !.w = t]
                                 ELSE [@ EXCEPT !.r = @ \cup {t}]]
Drop(L, l, t) ==
  [L EXCEPT ![l] = [w |-> IF @.w = t THEN "none" ELSE @.w, r |-> @.r \ {t}]]

\* Memory::write of a byte of the SD block: the RAM lock, then the
\* engine; an immediate interrupt is raised with both still held.
WritePlan == <<Lock("ram", "w"), Lock("sd_card", "w"), Do("write_sd")>>
WriteRest(interrupt) ==
  (IF interrupt THEN <<Lock("pending_interrupt", "w"), Do("raise"),
                       Unlock("pending_interrupt")>>
                ELSE <<>>)
  \o <<Unlock("sd_card"), Unlock("ram")>>

\* Memory::read of STATUS
StatusPlan == <<Lock("ram", "w"), Lock("sd_card", "r"), Do("read_status"),
                Unlock("sd_card"), Unlock("ram")>>

\* Memory::read_phys_bytes of a word of RAM
LoadPlan == <<Lock("ram", "w"), Do("load"), Unlock("ram")>>

\* Memory::write of the low byte of the PIT
PitWritePlan == <<Lock("ram", "w"), Lock("pit", "w"), Do("write_pit"),
                  Unlock("pit"), Unlock("ram")>>

\* check_interrupts: read pending, and clear it when it is not 0
CheckPlan == <<Lock("pending_interrupt", "r"), Do("peek"),
               Unlock("pending_interrupt")>>
CheckRest(raised) ==
  IF raised THEN <<Lock("pending_interrupt", "w"), Do("clear"),
                    Unlock("pending_interrupt")>>
             ELSE <<>>

\* tick_pit: the countdown is held throughout; at 0 the reload value is
\* read through read_u32, under the RAM lock.
PitTickPlan == <<Lock("pit_countdown", "w"), Do("pit_test")>>
PitTickRest(zero) ==
  IF zero THEN <<Lock("ram", "w"), Lock("pit", "r"), Do("pit_read"),
                 Unlock("pit"), Unlock("ram"), Do("pit_reload"),
                 Unlock("pit_countdown")>>
          ELSE <<Do("pit_dec"), Unlock("pit_countdown")>>

\* A tick that keeps the engine's guard while it copies.
TickRestHolding(loc) ==
  IF loc.bytes = 0 THEN <<Unlock("sd_card")>>
  ELSE <<Lock("ram", "w"), Do(IF loc.dir_ram_to_sd THEN "from_ram"
                                                   ELSE "from_sd"),
         Do(IF loc.dir_ram_to_sd THEN "to_sd" ELSE "to_ram"),
         Unlock("ram"), Unlock("sd_card")>>

\* tick_sd_dma_device: the accounting under the engine's guard, which is
\* dropped at the end of the block; then the copy, and the interrupt.
TickPlan == <<Lock("sd_card", "w"), Do("account")>>
TickRest(loc) ==
  <<Unlock("sd_card")>>
  \o (IF loc.bytes = 0 THEN <<>>
      ELSE IF loc.dir_ram_to_sd
        THEN <<Lock("ram", "w"), Do("from_ram"), Unlock("ram"),
               Lock("sd_card", "w"), Do("to_sd"), Unlock("sd_card")>>
        ELSE <<Lock("sd_card", "r"), Do("from_sd"), Unlock("sd_card"),
               Lock("ram", "w"), Do("to_ram"), Unlock("ram")>>)
  \o (IF loc.bytes # 0 /\ loc.done_after /\ loc.irq_enable
        THEN <<Lock("pending_interrupt", "w"), Do("raise"),
               Unlock("pending_interrupt")>>
        ELSE <<>>)

\* The source and the destination of the launched transfer hold the same
\* bytes.
Landed(x, inRam, onCard) ==
  \A i \in 0..(x.len - 1) :
    MemByte(onCard, x.off + i) = MemByte(inRam, x.mem + i)

\* A step of work: the engine, the locals, the pit and the history after
\* it, and the steps it adds to the call.
Same(t) == [m |-> SdCur, loc |-> thr[t].loc, more |-> <<>>,
            pit |-> pitState, seen |-> seen, reg |-> "none"]

Effect(t, e) ==
  LET loc == thr[t].loc
      s == sd
      same == Same(t)
  IN  CASE e = "write_sd" ->
             LET quiet == WriteInternal([SdCur EXCEPT !.irq = FALSE],
                                        loc.addr, loc.data)
             IN  [same EXCEPT !.m = [quiet EXCEPT !.irq = sdIrq],
                              !.more = WriteRest(quiet.irq),
                              !.reg = IF SdReg(loc.addr, SD_DMA_OFFSET_CTRL)
                                        THEN "CTRL" ELSE "LEN"]
        [] e = "raise" -> [same EXCEPT !.m.irq = TRUE]
        [] e = "read_status" ->
             [same EXCEPT !.seen =
                [by |-> t,
                 status |-> ReadInternal(SdCur, loc.addr),
                 launched |-> xfer.phase # "idle",
                 dir |-> xfer.dir,
                 landed |-> Landed(xfer, sdRam, sdStorage),
                 source |-> [i \in 1..xfer.len |->
                               MemByte(sdStorage, xfer.off + (i - 1))],
                 loaded |-> <<>>]]
        [] e = "load" ->
             [same EXCEPT !.seen =
                IF seen.by = t
                  THEN [seen EXCEPT !.loaded =
                          [i \in 1..4 |->
                             ReadInternal(SdCur, loc.addr + (i - 1))]]
                  ELSE seen]
        [] e = "write_pit" -> [same EXCEPT !.pit.reload = loc.data]
        [] e = "peek" -> [same EXCEPT !.more = CheckRest(sdIrq)]
        [] e = "clear" -> [same EXCEPT !.m.irq = FALSE]
        [] e = "pit_test" ->
             [same EXCEPT !.more = PitTickRest(pitState.countdown = 0)]
        [] e = "pit_read" -> [same EXCEPT !.loc.data = pitState.reload]
        [] e = "pit_reload" ->
             [same EXCEPT !.pit.countdown = IF loc.data # 0 THEN loc.data
                                                            ELSE @]
        [] e = "pit_dec" -> [same EXCEPT !.pit.countdown = @ - 1]
        [] e = "account" ->
             LET bytes == IF s.dma_remaining < SD_DMA_BYTES_PER_TICK
                            THEN s.dma_remaining ELSE SD_DMA_BYTES_PER_TICK
                 due == s.dma_active /\ s.dma_tick_countdown = 0
                 locals ==
                   [loc EXCEPT
                      !.mem_addr = s.dma_mem_cursor,
                      !.sd_offset = s.dma_sd_byte_cursor,
                      !.bytes = IF due THEN bytes ELSE 0,
                      !.dir_ram_to_sd =
                         HasBit(s.dma_ctrl, SD_DMA_CTRL_DIR_RAM_TO_SD),
                      !.done_after = s.dma_remaining - bytes = 0,
                      !.irq_enable =
                         HasBit(s.dma_ctrl, SD_DMA_CTRL_IRQ_ENABLE)]
             IN  [same EXCEPT
                    !.m.sd = TickSdDmaDevice(SdCur).sd,
                    !.loc = locals,
                    !.more = TickRest(locals),
                    !.reg = "tick"]
        [] e = "from_ram" ->
             [same EXCEPT !.loc.buf =
                [i \in 1..loc.bytes |->
                   ReadInternal(SdCur, loc.mem_addr + (i - 1))]]
        [] e = "from_sd" ->
             [same EXCEPT !.loc.buf =
                [i \in 1..loc.bytes |->
                   MemByte(sdStorage, loc.sd_offset + (i - 1))]]
        [] e = "to_sd" ->
             [same EXCEPT !.m.storage =
                            WriteStorage(@, loc.sd_offset, loc.buf),
                          !.reg = "tick"]
        [] e = "to_ram" ->
             [same EXCEPT !.m = WriteEach(SdCur, loc.mem_addr, loc.buf),
                          !.reg = "tick"]

InitLock ==
  /\ ParkedBus
  /\ ParkedSched
  /\ ParkedIntr
  /\ ParkedDev
  /\ ParkedTlb
  /\ ParkedCpu
  /\ ParkedAlu
  /\ ParkedWatch
  /\ ParkedDma
  /\ sd = SdCardNew
  /\ sdRam = DmaRamImage
  /\ sdStorage = DmaSdImage
  /\ sdIrq = FALSE
  /\ sdOps = 0
  /\ sdLast = NoSdOp

LockOthers ==
  UNCHANGED <<busVars, schedVars, intrVars, devVars, tlbVars, cpuVars,
              aluVars, watchVars, sdLast>>

\* A thread outside Memory calls it.
Call(t, op, plan, addr, data) ==
  /\ thr[t] = NoCall
  /\ sdOps < MaxLockCalls
  /\ sdOps' = sdOps + 1
  /\ thr' = [thr EXCEPT ![t] = [op |-> op, plan |-> plan,
                                 loc |-> [NoLocals EXCEPT !.addr = addr,
                                                          !.data = data]]]
  /\ UNCHANGED <<sd, sdRam, sdStorage, sdIrq, xfer, locks, seen, pitState>>
  /\ LockOthers

\* The bytes core 0 writes to the SD block: LEN = 4, and CTRL with START
\* and IRQ_EN, without and with DIR.
LockWrites ==
  {<<SD_DMA_MEM_ADDR + SD_DMA_OFFSET_LEN, 4>>,
   <<SD_DMA_MEM_ADDR + SD_DMA_OFFSET_CTRL, 5>>,
   <<SD_DMA_MEM_ADDR + SD_DMA_OFFSET_CTRL, 7>>}

CoreWrite ==
  \E w \in LockWrites :
    /\ w[1] <= PHYSMEM_MAX
    /\ Call("core0", "write", WritePlan, w[1], w[2])

\* STATUS as a core reads it says the transfer is over.
SawDone(status) ==
  HasBit(status, SD_DMA_STATUS_DONE) /\ ~HasBit(status, SD_DMA_STATUS_BUSY)

\* Core 1 polls STATUS until it reads DONE without BUSY ...
CoreStatus ==
  \E addr \in {SD_DMA_MEM_ADDR + SD_DMA_OFFSET_STATUS} :
    /\ ~SawDone(seen.status)
    /\ Call("core1", "read", StatusPlan, addr, 0)

\* ... and then reads the word at MEM_ADDR.
CoreLoad ==
  /\ SawDone(seen.status)
  /\ seen.loaded = <<>>
  /\ Call("core1", "read_phys_bytes", LoadPlan, sd.dma_mem_addr, 0)

CorePitWrite ==
  \E data \in {1} :
    /\ PIT_START <= PHYSMEM_MAX
    /\ Call("core0", "write", PitWritePlan, PIT_START, data)

CoreCheck ==
  \E t \in {"core0"} :
    /\ thr[t] = NoCall
    /\ Call(t, "check_interrupts", CheckPlan, 0, 0)

DevTickSd ==
  /\ thr["dev"] = NoCall
  /\ Call("dev", "tick_sd_dma", TickPlan, 0, 0)

DevTickPit ==
  /\ thr["dev"] = NoCall
  /\ Call("dev", "tick_pit", PitTickPlan, 0, 0)

\* The next step of the call a thread is in.
LockStep(t) ==
  /\ thr[t].plan # <<>>
  /\ LET step == Head(thr[t].plan)
         rest == Tail(thr[t].plan)
         after(loc, plan) == IF plan = <<>> THEN NoCall
                             ELSE [thr[t] EXCEPT !.loc = loc, !.plan = plan]
     IN  \/ /\ step[1] = "lock"
            /\ CanTake(locks, step[2], step[3])
            /\ locks' = Take(locks, step[2], step[3], t)
            /\ thr' = [thr EXCEPT ![t] = after(thr[t].loc, rest)]
            /\ UNCHANGED <<sd, sdRam, sdStorage, sdIrq, xfer, seen,
                           pitState>>
         \/ /\ step[1] = "unlock"
            /\ locks' = Drop(locks, step[2], t)
            /\ thr' = [thr EXCEPT ![t] = after(thr[t].loc, rest)]
            /\ UNCHANGED <<sd, sdRam, sdStorage, sdIrq, xfer, seen,
                           pitState>>
         \/ /\ step[1] = "do"
            /\ \E r \in {Effect(t, step[2])} :
                 /\ sd' = r.m.sd
                 /\ sdRam' = r.m.ram
                 /\ sdStorage' = r.m.storage
                 /\ sdIrq' = r.m.irq
                 /\ pitState' = r.pit
                 /\ seen' = r.seen
                 /\ xfer' = Observe(SdCur, r.m, r.reg, thr[t].loc.data)
                 /\ thr' = [thr EXCEPT ![t] = after(r.loc, rest \o r.more)]
            /\ UNCHANGED locks
  /\ UNCHANGED sdOps
  /\ LockOthers

CoreRun == \E t \in {"core0", "core1"} : thr[t] # NoCall /\ LockStep(t)
DevRun == thr["dev"] # NoCall /\ LockStep("dev")

NextLock ==
  \/ CoreWrite
  \/ CoreStatus
  \/ CoreLoad
  \/ CorePitWrite
  \/ CoreCheck
  \/ DevTickSd
  \/ DevTickPit
  \/ CoreRun
  \/ DevRun

SpecLock == InitLock /\ [][NextLock]_vars

\* Every thread inside Memory keeps running.
FairSpecLock == SpecLock /\ \A t \in LockThreads : WF_vars(LockStep(t))

(***************************************************************************)
(* The debugger's watchpoint list.  At most one watchpoint is kept per     *)
(* address; watching an address again merges the two kinds.                *)
(***************************************************************************)
WatchKinds == {"Read", "Write", "ReadWrite"}
WatchAddrs == {16, 32, 48}

\* merge_watch_kind
MergeWatchKind(existing, new_kind) ==
  IF existing = new_kind THEN existing ELSE "ReadWrite"

\* the positions of the list that hold addr
WatchAt(list, addr) == {i \in DOMAIN list : list[i].addr = addr}

\* add_watchpoint without the search for addr
AddWatchpointPush(list, addr, kind) ==
  [list |-> Append(list, [addr |-> addr, kind |-> kind]), ret |-> kind]

\* add_watchpoint: the first entry for addr takes the merged kind, which is
\* returned; with no entry one is pushed and kind is returned.
AddWatchpoint(list, addr, kind) ==
  IF WatchAt(list, addr) # {}
    THEN LET i == MinOf(WatchAt(list, addr))
             merged == MergeWatchKind(list[i].kind, kind)
         IN  [list |-> [list EXCEPT ![i].kind = merged], ret |-> merged]
    ELSE [list |-> Append(list, [addr |-> addr, kind |-> kind]),
          ret |-> kind]

\* remove_watchpoint: retain the other addresses; true when one was dropped.
RemoveWatchpoint(list, addr) ==
  LET kept == SelectSeq(list, LAMBDA wp : wp.addr # addr)
  IN  [list |-> kept, ret |-> Len(list) # Len(kept)]

InitWatch ==
  /\ ParkedBus
  /\ ParkedSched
  /\ ParkedIntr
  /\ ParkedDev
  /\ ParkedTlb
  /\ ParkedCpu
  /\ ParkedAlu
  /\ ParkedSd
  /\ ParkedWatch
  /\ ParkedDma

WatchOthers ==
  UNCHANGED <<busVars, schedVars, intrVars, devVars, tlbVars, cpuVars,
              aluVars, sdVars, dmaVars>>

\* the debugger's "watch" command
Watch ==
  /\ watchOps < MaxWatchOps
  /\ \E addr \in WatchAddrs, kind \in WatchKinds :
       \E r \in {AddWatchpoint(watchpoints, addr, kind)} :
         /\ watchpoints' = r.list
         /\ watchLast' = [op |-> "add", addr |-> addr, kind |-> kind,
                          before |-> watchpoints, ret |-> r.ret]
  /\ watchOps' = watchOps + 1
  /\ WatchOthers

\* the debugger's "unwatch" command
Unwatch ==
  /\ watchOps < MaxWatchOps
  /\ \E addr \in WatchAddrs :
       \E r \in {RemoveWatchpoint(watchpoints, addr)} :
         /\ watchpoints' = r.list
         /\ watchLast' = [op |-> "remove", addr |-> addr, kind |-> "Read",
                          before |-> watchpoints, ret |-> r.ret]
  /\ watchOps' = watchOps + 1
  /\ WatchOthers

NextWatch == Watch \/ Unwatch

SpecWatch == InitWatch /\ [][NextWatch]_vars

(***************************************************************************)
(* Properties of the scheduler.                                            *)
(***************************************************************************)
\* Core c holds a turn: wait_turn has returned true and c has neither
\* finished its finish_turn or mark_halted nor left the loop.
InTurn(c) ==
  spc[c] \in {"check", "tick", "after", "mark", "finish", "stop_turn"}

\* C4: in RoundRobin and Random mode no two cores are at the same time
\* between wait_turn returning true and their own finish_turn/mark_halted.
C4_OneCoreAtATime ==
  HasScheduler =>
    \A c, d \in CoreIds : (InTurn(c) /\ InTurn(d)) => c = d

\* A core that has halted and passed the turn on (mark_halted done, stop
\* not yet called) while the next core holds the turn.
C4_Witness ==
  /\ HasScheduler
  /\ \E c, d \in CoreIds : c # d /\ spc[c] = "stop_halt" /\ InTurn(d)

LiveCores == {c \in CoreIds : ~halted[c]}

\* Steps from core a forward to core b around the ring, 1..cores.
RingDist(a, b) == IF b = a THEN cores ELSE (b - a + cores) % cores

\* The last n entries of the turn log, as a set.
LastTurns(n) ==
  {turnLog[i] : i \in (Len(turnLog) - n + 1)..Len(turnLog)}

\* C5: under RoundRobin with N non-halted cores and the scheduler not
\* done, N consecutive turns give every non-halted core exactly one turn,
\* and the turn always passes to the nearest non-halted core after the
\* current one, counting current+1, current+2, ... modulo the core count.
C5_RoundRobinRotation ==
  /\ [](  (mode = "RoundRobin" /\ ~done
                /\ Len(turnLog) >= Cardinality(LiveCores))
           => LastTurns(Cardinality(LiveCores)) = LiveCores)
  /\ [][ (mode = "RoundRobin" /\ next_core' # next_core)
           => /\ ~halted'[next_core']
              /\ \A d \in CoreIds :
                   ~halted'[d] =>
                     RingDist(next_core, next_core')
                       <= RingDist(next_core, d) ]_vars

\* The turn has gone round the ring and come back to core 0.
C5_Witness ==
  /\ mode = "RoundRobin" /\ cores = MaxCores /\ ~done
  /\ Len(turnLog) = cores
  /\ turnLog[cores] = 0

SomeCoreTriggered ==
  \E c \in CoreIds :
    cpuHalted[c] \/ (max_iters # 0 /\ count[c] > max_iters)

AllExited == \A c \in CoreIds : spc[c] = "exited"

\* C6 as stated: in all three modes, once a core has halted or exceeded
\* max_cycles the scheduler's done flag becomes true; so it is true when
\* every thread has left run_core_loop.
C6_DoneInEveryMode ==
  (SomeCoreTriggered /\ AllExited) => done

\* C6 as amended: in all three modes, once a core has halted or exceeded
\* max_cycles every core thread eventually leaves run_core_loop; in
\* RoundRobin and Random mode the done flag becomes true; done never
\* returns to false; no thread stays parked in wait_turn.
C6_AllThreadsLeave ==
  /\ SomeCoreTriggered ~> AllExited
  /\ (SomeCoreTriggered /\ HasScheduler) ~> done
  /\ [][done => done']_vars
  /\ [](AllExited => waiters = {})

\* Under a scheduler, every thread of a multi-core run has left after a
\* core halted, and another core was parked in wait_turn on the way.
C6_Witness ==
  /\ HasScheduler /\ cores >= 2 /\ done /\ AllExited
  /\ \E c \in CoreIds : cpuHalted[c]

(***************************************************************************)
(* Properties of the bus.                                                  *)
(***************************************************************************)
Quiescent == \A t \in BusThreads : busOp[t].kind = "idle"

\* Calls j and k (j logged first) ran concurrently: k was issued before j
\* had returned.
Overlap(j, k) == j < k /\ opLog[k].issued < j /\ opLog[j].t # opLog[k].t

LogIdx(kind) == {k \in 1..Len(opLog) : opLog[k].kind = kind}

\* C1: every atomic swap returns the word's content immediately before its
\* own write (the initial value or what an earlier call wrote), no two
\* swaps return the same write, the word holds the value of the last swap
\* when nothing was written after it, and two swaps A and B from initial I
\* end in (returns I and A, final B) or (returns I and B, final A).
C1_SwapSerial ==
  /\ \A k \in LogIdx("swap") :
       /\ ReadU32Internal(opLog[k].ret) = wordHist[opLog[k].wr - 1]
       /\ wordHist[opLog[k].wr] = opLog[k].val
       /\ (Quiescent /\ opLog[k].wr = Len(wordHist))
            => WordOf(ram) = opLog[k].val
  /\ \A j, k \in LogIdx("swap") : j # k => opLog[j].ret # opLog[k].ret
  /\ (Quiescent /\ Len(opLog) = 2 /\ LogIdx("swap") = {1, 2})
       => LET I == wordHist[1]
              A == opLog[1].val
              B == opLog[2].val
              r1 == ReadU32Internal(opLog[1].ret)
              r2 == ReadU32Internal(opLog[2].ret)
          IN  \/ r1 = I /\ r2 = A /\ WordOf(ram) = B
              \/ r2 = I /\ r1 = B /\ WordOf(ram) = A

\* Two swaps by different cores ran concurrently and both have returned.
C1_Witness ==
  \E j, k \in LogIdx("swap") : Overlap(j, k)

RECURSIVE SumAdds(_)
\* initial + the addends of the first k logged calls, modulo 2^32
SumAdds(k) ==
  IF k = 0 THEN wordHist[1]
  ELSE IF opLog[k].kind = "add"
         THEN WrappingAdd(SumAdds(k - 1), opLog[k].val)
         ELSE SumAdds(k - 1)

\* No write other than a fetch-add among the first k logged calls.
OnlyAdds(k) == \A j \in 1..k : opLog[j].kind \in {"add", "load"}

\* C2: no fetch-add is lost: in the order the adds returned, each one
\* returns initial + the sum of the addends before it (mod 2^32), and once
\* all have returned the word is initial + the sum of all addends.
C2_AddNoLostUpdate ==
  /\ \A k \in LogIdx("add") :
       OnlyAdds(k) => ReadU32Internal(opLog[k].ret) = SumAdds(k - 1)
  /\ (Quiescent /\ OnlyAdds(Len(opLog)))
       => WordOf(ram) = SumAdds(Len(opLog))

\* Two concurrent fetch-adds by different cores whose sum wrapped past 2^32.
C2_Witness ==
  /\ Quiescent
  /\ OnlyAdds(Len(opLog))
  /\ \E j, k \in LogIdx("add") : Overlap(j, k)
  /\ wordHist[1] = U32(65535, 65534)
  /\ WordOf(ram).hi < 65535

\* The bytes a load of `width` bytes at offset `off` sees in word w.
Slice(w, off, width) == SubSeq(WriteU32Internal(w), off + 1, off + width)

\* C3: a 16- or 32-bit load never returns a torn value: the bytes it
\* returns are the bytes of the word as it stood between two whole writes
\* (core stores, atomics, DMA word writes) during the load.
C3_NoTornLoad ==
  \A k \in LogIdx("load") :
    \E h \in opLog[k].h0..opLog[k].h1 :
      opLog[k].ret = Slice(wordHist[h], opLog[k].off, opLog[k].width)

\* A load that ran concurrently with another party's store or DMA word
\* write to the same bytes and returned the bytes written.
C3_Witness ==
  \E j, k \in 1..Len(opLog) :
    /\ Overlap(j, k)
    /\ opLog[j].kind \in {"store", "dma"}
    /\ opLog[k].kind = "load"
    /\ opLog[k].off = opLog[j].off /\ opLog[k].width = opLog[j].width
    /\ opLog[k].ret = Slice(opLog[j].val, 0, opLog[k].width)

(***************************************************************************)
(* Properties of the interrupt controller.                                 *)
(***************************************************************************)
\* C7: every bit passed to set_pending_bits(core, b) is returned by the
\* next take_pending(core) and by no other: the pending word is exactly
\* the bits set since the last take, a take returns exactly those, and it
\* leaves nothing behind.
C7_PendingExact ==
  \A c \in IntrCores :
    /\ pending[c] = setSince[c]
    /\ takeLog[c].got = takeLog[c].owed

\* One take returned two bits that two different calls had set.
C7_Witness ==
  \E c \in IntrCores :
    /\ takeLog[c].got = InputBit \cup IPI_INTERRUPT_BIT
    /\ ipc[c] = "exec"

LastStored(c, n) == storeLog[c][n]

\* C8 as stated: on the delivery that takes the IPI bit of a send
\* send_ipi(target, v), MBI = v, for every send whose bit that take took.
C8_MbiIsEverySendsValue ==
  \A c \in IntrCores :
    delivery[c].done =>
      \A s \in delivery[c].took : delivery[c].val = s.val

\* C8 as amended: the delivery that takes the IPI bit sets ISR bit 5 and
\* sets MBI to the payload most recently stored in the target's slot when
\* it reads it; so MBI = v for a send whose store is that most recent one.
C8_MbiIsLastStoredValue ==
  \A c \in IntrCores :
    delivery[c].done =>
      /\ delivery[c].isr5
      /\ delivery[c].took # {}
      /\ delivery[c].stores >= 1
      /\ delivery[c].val = LastStored(c, delivery[c].stores).val
      /\ \A s \in delivery[c].took :
           s = LastStored(c, delivery[c].stores) => delivery[c].val = s.val

\* One delivery took the bit of two sends, from two cores, with two
\* different payloads.
C8_Witness ==
  \E c \in IntrCores :
    /\ delivery[c].done
    /\ \E s, t \in delivery[c].took : s.from # t.from /\ s.val # t.val

StoredSends(c) == {storeLog[c][i] : i \in 1..Len(storeLog[c])}

\* C9: a core that sees the IPI bit in the taken word reads a payload that
\* a send_ipi to this core stored before the read, never the slot's
\* initial content: every send whose bit is pending or taken has already
\* stored its payload.
C9_PayloadWasSent ==
  \A c \in IntrCores :
    /\ bitFrom[c] \subseteq StoredSends(c)
    /\ (IPI_INTERRUPT_BIT \subseteq pending[c]) => storeLog[c] # <<>>
    /\ delivery[c].took \subseteq StoredSends(c)
    /\ delivery[c].done =>
         /\ delivery[c].stores >= 1
         /\ delivery[c].val \in
              {storeLog[c][i].val : i \in 1..delivery[c].stores}

\* A payload of 0 sent by the other core has been delivered into MBI.
C9_Witness ==
  \E c \in IntrCores :
    /\ delivery[c].done
    /\ delivery[c].val = 0
    /\ \E s \in delivery[c].took : s.from # c /\ s.val = 0

\* Core c holds an unacknowledged input interrupt: dispatch_input raised
\* the bit on it, and the bit is still in its pending word or is in its
\* ISR and not cleared since.
HoldsInput(c) == (InputBit \subseteq pending[c]) \/ inputHeld[c]

\* C10 as stated: at most one core at a time holds an unacknowledged KB
\* (resp. UART) interrupt.
C10_OneUnacknowledged ==
  Cardinality({c \in IntrCores : HoldsInput(c)}) <= 1

\* The in-flight slots change only as dispatch_input and ack_input allow:
\* a slot is filled only when empty, and emptied only by a step in which
\* its owner's ISR loses the bit.
InflightSlotDiscipline ==
  [][ /\ (routes'.kb_inflight # routes.kb_inflight) =>
           \/ routes.kb_inflight = NoCore
           \/ /\ routes'.kb_inflight = NoCore
              /\ \E c \in IntrCores :
                   /\ routes.kb_inflight = Some(c)
                   /\ KB_INTERRUPT_BIT \subseteq isr[c]
                   /\ (KB_INTERRUPT_BIT \cap isr'[c]) = {}
      /\ (routes'.uart_inflight # routes.uart_inflight) =>
           \/ routes.uart_inflight = NoCore
           \/ /\ routes'.uart_inflight = NoCore
              /\ \E c \in IntrCores :
                   /\ routes.uart_inflight = Some(c)
                   /\ UART_INTERRUPT_BIT \subseteq isr[c]
                   /\ (UART_INTERRUPT_BIT \cap isr'[c]) = {} ]_vars

(***************************************************************************)
(* Properties of the device interrupt path.                                *)
(***************************************************************************)
\* C11 as stated: every bit among sd (3), vga (4) and sd2 (6) in the word
\* passed to dispatch_device_interrupts is set in the pending word of
\* exactly one core; none is dropped.
C11_EveryDeviceBitRouted ==
  \A b \in lastDispatch.word \cap DeviceBits :
    Cardinality(lastDispatch.targets[b]) = 1

\* C12 as stated: every bit a device sets is returned by exactly one later
\* check_interrupts call and is never cleared without being returned.
C12_TakeAndClearAtomic == lostBits = {} /\ twiceBits = {}

(***************************************************************************)
(* Properties of the TLB and of address translation.                       *)
(***************************************************************************)
\* C13: after any sequence of tlbw, tlbi and tlbc each table holds at most
\* its capacity of entries and each size counter equals the number of
\* entries of its table, so that no assert! or expect of RandomCache
\* fails.
C13_SizesMatchTables ==
  /\ private_size = Cardinality(DOMAIN private_table)
  /\ global_size = Cardinality(DOMAIN global_table)
  /\ private_size <= TlbCapacity
  /\ global_size <= TlbCapacity
  /\ ~tlbPanic

\* Both tables are full and a translation has gone through access.
C13_Witness ==
  /\ private_size = TlbCapacity
  /\ global_size = TlbCapacity
  /\ lastMem.kind = "write8"
  /\ ~lastMem.kmode

\* The payloads the access at address addr of operation may go through:
\* the private entry of <<pid, vpn>> and the global entry of vpn that
\* have the operation's bit and, for user mode, the U bit.
PermittingEntries(pid, addr, operation, km) ==
  {e \in TableGet(private_table, <<pid, addr \div 4096>>)
         \cup TableGet(global_table, addr \div 4096) :
     /\ HasBit(e, OperationBit(operation))
     /\ km \/ HasBit(e, TLB_U)}

\* The last access made one translation, and made it through access().
SingleAccess ==
  /\ lastMem.kind \in {"fetch", "read8", "write8"}
  /\ ~lastMem.kmode \/ lastMem.vaddr > PHYSMEM_MAX

\* The private table holds an entry for the last access whose flags do not
\* permit it.
PrivateMismatch ==
  LET key == <<lastMem.pid, lastMem.vaddr \div 4096>>
      operation == MemTranslations(lastMem.kind, lastMem.vaddr)[1][2]
  IN  /\ key \in DOMAIN private_table
      /\ ~(/\ HasBit(private_table[key], OperationBit(operation))
           /\ lastMem.kmode \/ HasBit(private_table[key], TLB_U))

\* C14: access misses whenever the private table holds an entry for
\* (pid, vpn) whose flags lack the operation's bit, or lack U in user
\* mode: the global table is consulted only when the private table has no
\* entry for (pid, vpn).
C14_PrivateMismatchIsMiss ==
  (SingleAccess /\ PrivateMismatch) => lastMem.miss

\* C15: a user-mode access touches memory only at addresses translated
\* through an entry (private or global) of the current pid and page that
\* has the operation's bit and the U bit, and otherwise touches nothing
\* and raises vector 0x82; a kernel-mode access uses an address at or
\* below PHYSMEM_MAX as it is and translates one above it through the TLB.
C15_TranslationDiscipline ==
  lastMem.kind # "none" =>
    LET steps == MemTranslations(lastMem.kind, lastMem.vaddr)
        viaTlb(i) == ~lastMem.kmode \/ steps[i][1] > PHYSMEM_MAX
        entries(i) == PermittingEntries(lastMem.pid, steps[i][1],
                                        steps[i][2], lastMem.kmode)
    IN  /\ lastMem.miss =>
             /\ lastMem.phys = <<>>
             /\ lastMem.vector = IF lastMem.kmode THEN 131 ELSE 130
        /\ \A i \in DOMAIN steps :
             (viaTlb(i) /\ entries(i) = {}) => lastMem.miss
        /\ (\A i \in DOMAIN steps : ~viaTlb(i)) => ~lastMem.miss
        /\ ~lastMem.miss =>
             \A i \in DOMAIN lastMem.phys :
               IF viaTlb(i)
                 THEN \E e \in entries(i) :
                        lastMem.phys[i] = (e - (e % 4096))
                                          + (steps[i][1] % 4096)
                 ELSE lastMem.phys[i] = steps[i][1]

\* A user-mode 32-bit store has gone through the TLB to memory.
C15_Witness ==
  /\ ~lastMem.kmode
  /\ lastMem.kind = "write32"
  /\ ~lastMem.miss

(***************************************************************************)
(* Properties of exception entry and return, TLB misses and sleep.         *)
(***************************************************************************)
\* C16: in every reachable state of the core kmode is true exactly when
\* PSR > 0, whatever instructions ran (crmv to PSR, exceptions,
\* interrupts, rfe), and no assert! of kernel_instr fails.
C16_KmodeIffPsrPositive ==
  /\ kmode <=> (cregfile[0] > 0)
  /\ ~cpuPanic

\* C17: every exception entry (interrupt, TLB miss, illegal instruction,
\* privileged instruction, syscall with any code) adds exactly 1 to PSR,
\* every rfe and rfi takes exactly 1 off without going below 0, and an
\* exception taken at PSR = 0 followed by one rfe leaves PSR = 0 in user
\* mode.
C17_PsrStepsByOne ==
  /\ lastTick.delivered =>
       lastTick.mid.cregfile[0] = lastTick.pre.cregfile[0] + 1
  /\ lastTick.trap # "none" => cregfile[0] = lastTick.mid.cregfile[0] + 1
  /\ lastTick.returned =>
       /\ cregfile[0] = lastTick.mid.cregfile[0] - 1
       /\ cregfile[0] >= 0
  /\ (lastTick.returned /\ lastTick.ret.kind # "none"
        /\ lastTick.ret.psrBefore = 0) =>
       (cregfile[0] = 0 /\ ~kmode)

\* C18: an rfe that follows an exception entry, with no write to EPC in
\* between, sets pc to the EPC saved on entry: the pc of the faulting
\* instruction for a TLB miss, an illegal and a privileged instruction,
\* that pc + 4 for sys EXIT, the pc of the next instruction to execute
\* for an interrupt.
C18_RfeReturnsToSavedEpc ==
  (lastTick.returned /\ lastTick.ret.kind # "none") =>
    LET r == lastTick.ret
    IN  /\ pc = r.epc
        /\ r.epc = CASE r.kind = "sys_exit" -> r.pcBefore + 4
                     [] r.kind = "interrupt" ->
                          IF r.wasSleep THEN r.pcBefore + 4 ELSE r.pcBefore
                     [] OTHER -> r.pcBefore

\* An rfe has returned from sys EXIT.
C18_Witness == lastTick.returned /\ lastTick.ret.kind = "sys_exit"

PartialLoadMiss ==
  /\ lastTick.miss = "data"
  /\ lastTick.instr.op = "load"
  /\ lastTick.mid.kmode
  /\ lastTick.missAddr <= PHYSMEM_MAX

\* C20: after mode sleep at pc = P the core executes nothing until an
\* enabled interrupt is delivered; the delivery saves EPC = P + 4 and
\* clears asleep and sleep_armed; rfe or rfi from the handler resumes at
\* P + 4; sleep_armed is set only while asleep is.
C20_SleepResumesAfterSleep ==
  /\ sleep_armed => asleep
  /\ (asleep /\ sleep_armed) => slept = Some(pc)
  /\ (lastTick.pre.asleep /\ ~lastTick.delivered) => ~lastTick.ran
  /\ lastTick.delivered =>
       (~lastTick.mid.asleep /\ ~lastTick.mid.sleep_armed)
  /\ (lastTick.delivered /\ lastTick.pre.asleep
        /\ lastTick.pre.sleep_armed) =>
       lastTick.mid.cregfile[4] = lastTick.pre.pc + 4
  /\ (lastTick.returned /\ lastTick.ret.kind = "interrupt"
        /\ lastTick.ret.wasSleep) =>
       pc = lastTick.ret.pcBefore + 4

\* An rfi has returned from the interrupt that woke the core.
C20_Witness ==
  /\ lastTick.returned
  /\ lastTick.instr.x = 1
  /\ lastTick.ret.kind = "interrupt"
  /\ lastTick.ret.wasSleep
(***************************************************************************)
(* Properties of the ALU.                                                  *)
(***************************************************************************)
\* The four bytes of a word, lowest first.
RefBytes(w) == <<w[2] % 256, w[2] \div 256, w[1] % 256, w[1] \div 256>>

\* a + b by ripple carry over the bytes: the sum mod 2^32 and the carry out
\* of bit 31.
RefSum(a, b) ==
  LET s1 == RefBytes(a)[1] + RefBytes(b)[1]
      s2 == RefBytes(a)[2] + RefBytes(b)[2] + (s1 \div 256)
      s3 == RefBytes(a)[3] + RefBytes(b)[3] + (s2 \div 256)
      s4 == RefBytes(a)[4] + RefBytes(b)[4] + (s3 \div 256)
  IN  [carry |-> s4 \div 256,
       word |-> <<((s4 % 256) * 256) + (s3 % 256),
                  ((s2 % 256) * 256) + (s1 % 256)>>]

\* The second operand of the run: the register, or the 12-bit immediate
\* sign-extended (0x800..0xFFF stand for -2048..-1).
SecondOperand ==
  IF ~alu.imm THEN alu.c
  ELSE IF alu.c[2] >= 2048 THEN <<65535, 65536 - (4096 - alu.c[2])>>
  ELSE alu.c

FlagC == alu.flgAfter % 2
FlagZ == (alu.flgAfter \div 2) % 2
FlagS == (alu.flgAfter \div 4) % 2
FlagV == (alu.flgAfter \div 8) % 2

\* C25: ADD writes (rB + rC) mod 2^32 with C = the carry out of bit 31,
\* Z = (result = 0), S = bit 31 of the result and V = (the operands have
\* the same sign and the result's sign differs); every ALU instruction
\* that executes leaves Z and S as its own result gives them, whatever the
\* flags were before (and C clear when the instruction has no carry), and
\* the bits of FLG above the four flags as they were; 0xFFFFFFFF + 1 gives 0 with C=1, Z=1, S=0, V=0 and 0x7FFFFFFF + 1
\* gives 0x80000000 with C=0, Z=0, S=1, V=1.
C25_AddAndFlags ==
  (alu.ran /\ alu.status = "ok") =>
    /\ FlagZ = (IF alu.result = <<0, 0>> THEN 1 ELSE 0)
    /\ FlagS = (IF alu.result[1] >= 32768 THEN 1 ELSE 0)
    /\ alu.flgAfter \div 16 = alu.flg \div 16
    /\ alu.op \in {6, 20} => FlagC = 0
    /\ alu.op = 14 =>
         /\ alu.result = RefSum(alu.r_b, SecondOperand).word
         /\ FlagC = RefSum(alu.r_b, SecondOperand).carry
         /\ FlagV = (IF /\ (alu.r_b[1] >= 32768) = (SecondOperand[1] >= 32768)
                        /\ (alu.result[1] >= 32768) # (alu.r_b[1] >= 32768)
                       THEN 1 ELSE 0)
         /\ (alu.r_b = <<65535, 65535>> /\ SecondOperand = <<0, 1>>) =>
              alu.result = <<0, 0>> /\ alu.flgAfter % 16 = 3
         /\ (alu.r_b = <<32767, 65535>> /\ SecondOperand = <<0, 1>>) =>
              alu.result = <<32768, 0>> /\ alu.flgAfter % 16 = 12

\* 0x7FFFFFFF + 1 has run in register form with all four flags set before.
C25_Witness ==
  /\ alu.ran
  /\ alu.op = 14
  /\ ~alu.imm
  /\ alu.flg = 15
  /\ alu.r_b = <<32767, 65535>>
  /\ alu.c = <<0, 1>>
  /\ alu.result = <<32768, 0>>

\* a > b as unsigned 32-bit integers
UnsignedAbove(a, b) == a[1] > b[1] \/ (a[1] = b[1] /\ a[2] > b[2])

\* a > b as two's-complement 32-bit integers
SignedGreater(a, b) ==
  IF (a[1] >= 32768) # (b[1] >= 32768) THEN b[1] >= 32768
                                       ELSE UnsignedAbove(a, b)

\* C26: after a register-form SUB computing rB - rC, the condition ba is
\* true exactly when rB > rC as unsigned integers and the condition bg is
\* true exactly when rB > rC as signed integers.
C26_SubOrdersOperands ==
  (alu.ran /\ alu.op = 16 /\ ~alu.imm) =>
    /\ GetBranchCondition(alu.flgAfter, 15)
         = {UnsignedAbove(alu.r_b, alu.c)}
    /\ GetBranchCondition(alu.flgAfter, 11)
         = {SignedGreater(alu.r_b, alu.c)}

(***************************************************************************)
(* Properties of the instruction set.                                      *)
(***************************************************************************)
\* The instructions execute, alu_op, get_branch_condition and kernel_instr
\* have no arm for: an unknown opcode, an ALU op above 21 (register form)
\* or above 18 (immediate form), a branch condition above 18, and in
\* kernel mode an opcode-31 sub-op above 4.
UndefinedInstr(t) ==
  /\ t.ran
  /\ \/ t.instr.op = "illegal"
     \/ t.instr.op = "alu" /\ t.instr.x > 21
     \/ t.instr.op = "alui" /\ t.instr.x > 18
     \/ t.instr.op = "branch" /\ t.instr.x > 18
     \/ t.instr.op = "kernel" /\ t.mid.kmode

\* C21: an undefined instruction enters the illegal-instruction exception:
\* the emulator does not abort, the pc is the word of vector 0x80, EPC is
\* the pc of the instruction, and no general register (KSP, the kernel's
\* r31, included) is written.
C21_UndefinedEntersException ==
  UndefinedInstr(lastTick) =>
    /\ ~cpuPanic
    /\ kmode
    /\ pc = Vector(128)
    /\ cregfile[4] = lastTick.mid.pc
    /\ regfile = lastTick.mid.regfile
    /\ cregfile[8] = lastTick.mid.cregfile[8]

\* A tick that ran an instruction of opcode 31 in user mode.
UserPrivileged(t) == t.ran /\ t.instr.op \in KernelOps /\ ~t.mid.kmode

\* C22: an instruction of opcode 31 run in user mode has none of its
\* effects: the TLB, the general registers, memory, the sleep and halt
\* flags and the IPIs sent stay as they were, and of the control registers
\* only those of the privilege exception change: EPC is the pc of the
\* instruction, IMR loses bit 31, PSR is 1; kmode is true and the pc is
\* the word of vector 0x81.
C22_UserModeKernelInstr ==
  [][UserPrivileged(lastTick') =>
       /\ UNCHANGED <<private_table, private_size, global_table,
                      global_size, regfile, cmem, asleep, sleep_armed,
                      coreHalted, ipiLog>>
       /\ cregfile' = [lastTick'.mid.cregfile EXCEPT
                         ![0] = 1, ![3] = @ \ {31},
                         ![4] = lastTick'.mid.pc]
       /\ lastTick'.mid.cregfile = cregfile
       /\ kmode'
       /\ pc' = Vector(129)
       /\ ~cpuPanic']_vars

\* tlbc was run in user mode with interrupts enabled and an entry in the
\* TLB.
C22_Witness ==
  /\ UserPrivileged(lastTick)
  /\ lastTick.instr.op = "tlb"
  /\ lastTick.instr.x = 3
  /\ 31 \in lastTick.mid.cregfile[3]
  /\ global_size = 1
  /\ pc = Vector(129)

\* C23: r0 reads as 0 in every reachable state, whatever instruction
\* named it as its destination.
C23_RegisterZero == regfile[0] = 0 /\ GetReg(CpuCur, 0) = 0

\* fadd r0, r1, [r2] completed on a word that was not 0.
C23_Witness ==
  /\ lastTick.ran
  /\ lastTick.instr.op = "atomic"
  /\ lastTick.instr.a = 0
  /\ lastTick.trap = "none"
  /\ MemByte(lastTick.mid.mem, 2048) # 0
  /\ regfile[0] = 0

\* A tick that ran, in kernel mode and to its end, an instruction other
\* than crmv with r31 as its rA.
KernelR31(t, op) ==
  /\ t.ran
  /\ t.mid.kmode
  /\ t.instr.op = op
  /\ t.instr.a = 31
  /\ t.trap = "none"

\* What one tick does with r31 and KSP.
R31Step ==
  /\ (lastTick'.ran /\ lastTick'.mid.kmode
        /\ lastTick'.instr.op \notin {"crmv", "crmvraw"}) =>
       regfile'[31] = regfile[31]
  /\ KernelR31(lastTick', "lui") => cregfile'[8] = 3072
  /\ KernelR31(lastTick', "ipi") => cregfile'[8] = 1
  /\ (KernelR31(lastTick', "alu") /\ lastTick'.instr.y = 31) =>
       cregfile'[8] = cregfile[8] + regfile[2]
  /\ (KernelR31(lastTick', "branch") /\ pc' = regfile[2]) =>
       cregfile'[8] = pc + 4
  /\ KernelR31(lastTick', "crmvraw") =>
       /\ cregfile'[8] = cregfile[8]
       /\ regfile'[31] = IF lastTick'.instr.x = 1 THEN cregfile[8]
                                                  ELSE regfile[1]
  /\ (lastTick'.ran /\ lastTick'.mid.kmode
        /\ lastTick'.instr.op = "crmvraw" /\ lastTick'.instr.x = 0) =>
       cregfile'[6] = regfile[31]

\* C24: in kernel mode an instruction other than crmv leaves the user's
\* r31 as it is and reads and writes KSP (cr8) where it names r31; crmv
\* reads and writes the r31 slot itself; and the r31 user code had when
\* an exception was entered is the r31 it has after the rfe, unless a crmv
\* wrote the slot in between.
C24_KernelStackPointer ==
  /\ [][R31Step]_vars
  /\ []((lastTick.returned /\ lastTick.ret.kind # "none"
           /\ lastTick.ret.psrBefore = 0 /\ ~lastTick.ret.rawR31) =>
          (~kmode /\ GetReg(CpuCur, 31) = lastTick.ret.r31Before))

\* User code with r31 = 77 entered the kernel, the kernel wrote its r31,
\* and the rfe brought user code back to its own r31.
C24_Witness ==
  /\ lastTick.returned
  /\ lastTick.ret.kind # "none"
  /\ lastTick.ret.psrBefore = 0
  /\ lastTick.ret.r31Before = 77
  /\ lastTick.mid.cregfile[8] \notin {77, 88}
  /\ GetReg(CpuCur, 31) = 77

(***************************************************************************)
(* Properties of the bus and the SD DMA engine.                            *)
(***************************************************************************)
\* The last call read the bytes that the call before it wrote.
ReadAfterWrite ==
  /\ sdLast.kind = "read"
  /\ sdLast.after.kind = "write"
  /\ sdLast.after.addr = sdLast.addr
  /\ Len(sdLast.after.data) = Len(sdLast.readBack)

\* RAM and the registers that only hold a value: MEM_ADDR, SD_BLOCK, LEN.
PlainStorage(addr) ==
  ~SdRange(addr) \/ addr < SD_DMA_MEM_ADDR + SD_DMA_OFFSET_CTRL

\* C27 as claimed: a read that follows a write of the same address, RAM or
\* register, returns the byte written, and four bytes read after four
\* bytes written are those bytes in little-endian order.
C27_ReadReturnsWritten ==
  ReadAfterWrite =>
    /\ sdLast.readBack = sdLast.after.data
    /\ FromLeBytes(sdLast.readBack) = FromLeBytes(sdLast.after.data)

\* C27: a read that follows a write of the same address returns the byte
\* written, and four of them compose little-endian, in RAM and in
\* MEM_ADDR, SD_BLOCK and LEN.  CTRL reads back only DIR_RAM_TO_SD and
\* IRQ_ENABLE of what was written, a write of STATUS clears DONE and ERR
\* whatever the data, and a write of ERR is ignored.
C27_ReadReturnsStored ==
  ReadAfterWrite =>
    LET addr == sdLast.addr
        wrote == sdLast.after.data
    IN  /\ PlainStorage(addr) =>
             /\ sdLast.readBack = wrote
             /\ Len(wrote) = 4 =>
                  FromLeBytes(sdLast.readBack)
                    = wrote[1] + (256 * wrote[2]) + (65536 * wrote[3])
                        + (16777216 * wrote[4])
        /\ SdReg(addr, SD_DMA_OFFSET_CTRL) =>
             sdLast.readBack[1] = ClearBit(wrote[1] % 8, SD_DMA_CTRL_START)
        /\ SdReg(addr, SD_DMA_OFFSET_STATUS) =>
             /\ ~HasBit(sdLast.readBack[1], SD_DMA_STATUS_DONE)
             /\ ~HasBit(sdLast.readBack[1], SD_DMA_STATUS_ERR)
        /\ SdReg(addr, SD_DMA_OFFSET_ERR) => sdLast.readBack[1] = sd.dma_err

\* SD_BLOCK was written as four bytes and read back as 0x00020304.
C27_Witness ==
  /\ ReadAfterWrite
  /\ sdLast.addr = SD_DMA_MEM_ADDR + SD_DMA_OFFSET_SD_BLOCK
  /\ sdLast.after.data = <<4, 3, 2, 0>>
  /\ FromLeBytes(sdLast.readBack) = 131844

\* C28: the engine is active exactly when STATUS.BUSY is set, an active
\* engine has bytes remaining, and the cursors and the remaining count
\* are multiples of 4.
C28_EngineInvariant ==
  /\ sd.dma_active <=> HasBit(sd.dma_status, SD_DMA_STATUS_BUSY)
  /\ sd.dma_active <=>
       HasBit(ReadSdDmaMmio(sd, SD_DMA_MEM_ADDR + SD_DMA_OFFSET_STATUS),
              SD_DMA_STATUS_BUSY)
  /\ sd.dma_active => sd.dma_remaining > 0
  /\ sd.dma_mem_cursor % 4 = 0
  /\ sd.dma_sd_byte_cursor % 4 = 0
  /\ sd.dma_remaining % 4 = 0

\* A transfer of 8 bytes to the unaligned address 6 after its first word.
C28_Witness ==
  /\ sdLast.kind = "tick"
  /\ sd.dma_active
  /\ sd.dma_mem_addr = 6
  /\ sd.dma_mem_cursor = 8
  /\ sd.dma_remaining = 4

\* The step writes CTRL with START set.
StartWritten ==
  /\ sdLast'.kind = "write"
  /\ sdLast'.addr = SD_DMA_MEM_ADDR + SD_DMA_OFFSET_CTRL
  /\ HasBit(sdLast'.data[1], SD_DMA_CTRL_START)

\* STATUS as software reads it has DONE and ERR set.
DoneAndErr(s) ==
  LET status == ReadSdDmaMmio(s, SD_DMA_MEM_ADDR + SD_DMA_OFFSET_STATUS)
  IN  HasBit(status, SD_DMA_STATUS_DONE) /\ HasBit(status, SD_DMA_STATUS_ERR)

\* What a step that writes START into a busy engine, or with a length
\* that rounds down to 0, does.
RejectedStart(busy) ==
  /\ StartWritten
  /\ IF busy THEN HasBit(sd.dma_status, SD_DMA_STATUS_BUSY)
             ELSE ~HasBit(sd.dma_status, SD_DMA_STATUS_BUSY)
                  /\ sd.dma_len - (sd.dma_len % 4) = 0

\* The rejected request moves nothing.
NothingTransferred ==
  /\ UNCHANGED <<sdRam, sdStorage>>
  /\ sd'.dma_mem_cursor = sd.dma_mem_cursor
  /\ sd'.dma_sd_byte_cursor = sd.dma_sd_byte_cursor
  /\ sd'.dma_remaining = sd.dma_remaining

\* C29: a START that is rejected, because a transfer is running (Busy, 1)
\* or the length is zero (ZeroLen, 2), leaves its code in ERR and STATUS
\* reading DONE and ERR right after the write of CTRL, both stay until
\* STATUS is written, and nothing is transferred for it.
C29_RejectedStartSurfaces ==
  [][/\ RejectedStart(TRUE) =>
          /\ sd'.dma_err = SD_DMA_ERR_BUSY
          /\ DoneAndErr(sd')
          /\ NothingTransferred
     /\ RejectedStart(FALSE) =>
          /\ sd'.dma_err = SD_DMA_ERR_ZERO_LEN
          /\ DoneAndErr(sd')
          /\ NothingTransferred
     /\ (sd.dma_err # SD_DMA_ERR_NONE /\ DoneAndErr(sd)
           /\ sdLast'.addr # SD_DMA_MEM_ADDR + SD_DMA_OFFSET_STATUS) =>
          /\ sd'.dma_err = sd.dma_err
          /\ DoneAndErr(sd')]_vars

(***************************************************************************)
(* Properties of the addresses the core puts on the bus.                   *)
(***************************************************************************)
\* The byte addresses the bus is asked for by the access in lastMem:
\* read_u32 and the atomics take the word of the translated address,
\* the others the translated bytes themselves.
BusAddresses ==
  IF lastMem.kind \in {"fetch", "atomic_add32"}
    THEN {(lastMem.phys[i] - (lastMem.phys[i] % 4)) + b :
            i \in DOMAIN lastMem.phys, b \in 0..3}
    ELSE {lastMem.phys[i] : i \in DOMAIN lastMem.phys}

\* C30: every address the core passes to the bus, for a fetch, a load, a
\* store or an atomic, translated by the kernel's identity or through an
\* entry that tlbw installed, and for the vector read of a miss, is at
\* most PHYSMEM_MAX.
C30_BusAddressesInRange ==
  /\ \A a \in BusAddresses : a <= PHYSMEM_MAX
  /\ lastMem.miss =>
       /\ (lastMem.vector * 4) + 3 <= PHYSMEM_MAX
       /\ \A b \in 0..3 :
            ConvertMemAddress(TRUE, lastMem.pid, (lastMem.vector * 4) + b, 0)
              = {(lastMem.vector * 4) + b}

\* A user load went through the entry that tlbw wrote from a register
\* value with bit 27 set.
C30_Witness ==
  /\ lastMem.kind = "read8"
  /\ ~lastMem.kmode
  /\ ~lastMem.miss
  /\ lastMem.vaddr = 134217724
  /\ BusAddresses = {8188}


\* The list holds each address at most once.
OnePerAddress(list) ==
  \A i, j \in DOMAIN list : list[i].addr = list[j].addr => i = j

\* What the last "watch" did to the address it named.
AddMerges ==
  watchLast.op = "add" =>
    LET was == WatchAt(watchLast.before, watchLast.addr)
        now == WatchAt(watchpoints, watchLast.addr)
    IN  /\ Cardinality(now) = 1
        /\ \A i \in now : watchpoints[i].kind = watchLast.ret
        /\ \A i \in was :
             IF watchLast.before[i].kind = watchLast.kind
               THEN watchLast.ret = watchLast.kind
               ELSE watchLast.ret = "ReadWrite"
        /\ was = {} => watchLast.ret = watchLast.kind
        /\ \A i \in DOMAIN watchLast.before :
             watchLast.before[i].addr # watchLast.addr =>
               watchpoints[i] = watchLast.before[i]

\* merge_watch_kind is idempotent and commutative, and ReadWrite absorbs.
MergeLaws ==
  \A a, b \in WatchKinds :
    /\ MergeWatchKind(a, a) = a
    /\ MergeWatchKind(a, b) = MergeWatchKind(b, a)
    /\ MergeWatchKind("ReadWrite", a) = "ReadWrite"
    /\ MergeWatchKind(a, "ReadWrite") = "ReadWrite"

\* C31: after any sequence of watch and unwatch commands the list holds at
\* most one entry per address; watching an address again with a different
\* kind leaves and returns ReadWrite, with the same kind leaves the entry as
\* it was; the merge is idempotent, commutative and absorbed by ReadWrite.
C31_OneWatchpointPerAddress ==
  /\ OnePerAddress(watchpoints)
  /\ AddMerges
  /\ MergeLaws

\* a Read watchpoint has just been upgraded by a Write one, with another
\* address in the list
C31_Witness ==
  /\ watchLast.op = "add"
  /\ watchLast.kind = "Write"
  /\ \E i \in WatchAt(watchLast.before, watchLast.addr) :
       watchLast.before[i].kind = "Read"
  /\ watchLast.ret = "ReadWrite"
  /\ Len(watchpoints) = 2


\* The last tick's poll found the global enable set and an enabled bit
\* pending.
InterruptTaken ==
  /\ cpuTicks > 0
  /\ 31 \in lastTick.pre.cregfile[3]
  /\ lastTick.pre.cregfile[3] \cap lastTick.mid.cregfile[2] # {}

\* What the entry of the last tick's interrupt saved and switched.
InterruptSaved ==
  /\ lastTick.delivered
  /\ lastTick.mid.cregfile[4] =
       IF lastTick.pre.asleep /\ lastTick.pre.sleep_armed
         THEN lastTick.pre.pc + 4 ELSE lastTick.pre.pc
  /\ lastTick.mid.cregfile[3] = lastTick.pre.cregfile[3] \ {31}
  /\ lastTick.mid.cregfile[0] = lastTick.pre.cregfile[0] + 1
  /\ lastTick.mid.kmode
  /\ ~lastTick.mid.asleep

\* With the global enable clear the poll enters nothing, and the ISR keeps
\* its bits through every tick whose instruction does not write it.
InterruptMasked ==
  cpuTicks > 0 =>
    /\ 31 \notin lastTick.pre.cregfile[3] =>
         /\ ~lastTick.delivered
         /\ lastTick.mid.pc = lastTick.pre.pc
         /\ lastTick.mid.cregfile[0] = lastTick.pre.cregfile[0]
         /\ lastTick.mid.kmode = lastTick.pre.kmode
    /\ lastTick.pre.cregfile[2] \subseteq lastTick.mid.cregfile[2]
    /\ ~(lastTick.ran /\ lastTick.instr.op = "crmvbits"
           /\ lastTick.instr.x = 2) =>
         lastTick.mid.cregfile[2] \subseteq cregfile[2]

\* The entry as handle_interrupts makes it: the vector of the highest
\* pending enabled line among 0..15, and no load of the PC when the only
\* pending enabled bits are among 16..31.
InterruptEntryLow ==
  /\ InterruptTaken =>
       /\ InterruptSaved
       /\ LET low == lastTick.pre.cregfile[3] \cap lastTick.mid.cregfile[2]
                       \cap (0..15)
          IN  lastTick.mid.pc = IF low # {} THEN Vector(240 + MaxOf(low))
                                ELSE lastTick.mid.cregfile[4]
  /\ InterruptMasked

\* C32: whenever an interrupt is taken (IMR bit 31 set and IMR & ISR # 0 at
\* the poll), for every IMR and ISR, EPC is the interrupted PC, IMR bit 31
\* is cleared, PSR is incremented, the core is in kernel mode and PC is
\* loaded from the vector 0xF0 + k with k the highest set bit of IMR & ISR;
\* with IMR bit 31 clear nothing is taken and the ISR bits stay.
C32_InterruptEntry ==
  /\ InterruptTaken =>
       /\ InterruptSaved
       /\ lastTick.mid.pc =
            Vector(240 + MaxOf(lastTick.pre.cregfile[3]
                                 \cap lastTick.mid.cregfile[2]))
  /\ InterruptMasked


\* The core e is a secondary core that has not been woken since from_shared.
NeverWoken(e) == e.cregfile[9] # 0 /\ e.asleep /\ ~e.sleep_armed

\* from_shared: a secondary core is asleep at the boot PC with the global
\* enable and the IPI line in its IMR; core 0 runs at the boot PC in kernel
\* mode and its first tick executes there.
BootStates ==
  /\ NeverWoken(CpuCur) =>
       /\ pc = 1024
       /\ kmode
       /\ cregfile[0] = 1
       /\ cregfile[3] = {31} \cup IPI_INTERRUPT_BIT
       /\ regfile = EmulatorNew.regfile
       /\ cmem = EmulatorNew.mem
  /\ cregfile[9] # 0 /\ cpuTicks = 0 => NeverWoken(CpuCur)
  /\ cregfile[9] = 0 /\ cpuTicks = 0 => ~asleep /\ kmode /\ pc = 1024
  /\ cregfile[9] = 0 /\ cpuTicks = 1 =>
       /\ lastTick.ran
       /\ ~lastTick.delivered
       /\ lastTick.mid.pc = 1024
       /\ lastTick.mid.kmode

\* A tick of a core never woken: without an IPI nothing runs and the core
\* stays as it was; with one the core enters the IPI handler with EPC at
\* the boot PC and the payload in MBI.
BootWake ==
  cpuTicks > 0 /\ NeverWoken(lastTick.pre) =>
    IF lastTick.ipi = {}
      THEN /\ ~lastTick.ran
           /\ ~lastTick.delivered
           /\ NeverWoken(CpuCur)
      ELSE /\ lastTick.delivered
           /\ lastTick.mid.pc = Vector(245)
           /\ lastTick.mid.cregfile[4] = 1024
           /\ lastTick.ipi = Some(lastTick.mid.cregfile[10])
           /\ ~lastTick.mid.asleep
           /\ lastTick.mid.kmode
           /\ lastTick.ran

\* C36: a secondary core starts asleep with IMR = global enable + IPI and
\* executes nothing until an IPI is delivered; the first IPI wakes it into
\* vector 0xF5 with EPC equal to its boot PC, not advanced by 4, and MBI
\* equal to the payload; core 0 starts running at the boot PC in kernel mode.
C36_SecondaryCoreBoot ==
  /\ BootStates
  /\ BootWake

\* a secondary core has sat through a tick with the timer pending and was
\* then woken by an IPI carrying 9
C36_Witness ==
  /\ cpuTicks >= 2
  /\ NeverWoken(lastTick.pre)
  /\ 0 \in lastTick.pre.cregfile[2]
  /\ lastTick.ipi = Some(9)
  /\ lastTick.mid.cregfile[10] = 9
  /\ lastTick.mid.cregfile[4] = 1024
  /\ lastTick.mid.pc = Vector(245)


\* The amount of the shift that was run.
ShiftAmount == alu.c[2] % 32

\* The shift of r_b by n as arithmetic defines it: bit i of the result is
\* bit i - n for lsl, bit i + n for lsr and asr, with zeros shifted in, or
\* copies of bit 31 for asr.
RefShift(op, w, n) ==
  WordOfBits([i \in 0..31 |->
    IF op = 7 THEN (IF i >= n THEN WordBit(w, i - n) ELSE 0)
    ELSE IF i + n <= 31 THEN WordBit(w, i + n)
    ELSE IF op = 9 THEN WordBit(w, 31) ELSE 0])

\* A 1 bit leaves the word: one of the n highest for lsl, of the n lowest
\* for lsr and asr.
RefShiftedOut(op, w, n) ==
  \E i \in 0..31 :
    /\ WordBit(w, i) = 1
    /\ IF op = 7 THEN i >= 32 - n ELSE i < n

\* What lsl, lsr and asr compute with the amounts 0..31: the shifts are
\* right and so is the carry of lsr; lsl by 0 sets C for every r_b # 0; asr
\* sets C to bit 0 of r_b whatever the amount, and by 0 turns a negative
\* r_b into 0xFFFFFFFF.
ShiftsAsComputed ==
  alu.ran /\ alu.op \in ShiftOps =>
    /\ alu.status = "ok"
    /\ alu.result =
         IF alu.op = 9 /\ ShiftAmount = 0 /\ SignOf(alu.r_b) = 1
           THEN <<65535, 65535>>
           ELSE RefShift(alu.op, alu.r_b, ShiftAmount)
    /\ alu.flgAfter % 2 = 1 <=>
         CASE alu.op = 7 -> IF ShiftAmount = 0 THEN alu.r_b # <<0, 0>>
                            ELSE RefShiftedOut(7, alu.r_b, ShiftAmount)
           [] alu.op = 8 -> RefShiftedOut(8, alu.r_b, ShiftAmount)
           [] alu.op = 9 -> WordBit(alu.r_b, 0) = 1

\* C35: lsl, lsr and asr by n in 0..31, register or immediate form, give
\* the logical-left, logical-right and arithmetic-right shift of rB modulo
\* 2^32 and set C exactly when a 1 bit is shifted out; a shift by 0 returns
\* rB with C = 0.
C35_ShiftsAndCarry ==
  alu.ran /\ alu.op \in ShiftOps =>
    /\ alu.status = "ok"
    /\ alu.result = RefShift(alu.op, alu.r_b, ShiftAmount)
    /\ alu.flgAfter % 2 = 1 <=>
         RefShiftedOut(alu.op, alu.r_b, ShiftAmount)
    /\ ShiftAmount = 0 => alu.result = alu.r_b /\ alu.flgAfter % 2 = 0


\* The size in bytes of the last access, and its address with the low bits
\* cleared.
AccessSize == IF lastMem.kind \in {"read16", "write16"} THEN 2 ELSE 4
AccessAligned == lastMem.vaddr - (lastMem.vaddr % AccessSize)

\* The physical bytes the last access touched.
AccessTouched ==
  IF lastMem.kind \in MemAtomics
    THEN {lastMem.phys[1] + i : i \in 0..3}
    ELSE {lastMem.phys[i] : i \in DOMAIN lastMem.phys}

\* The bytes of the aligned halfword or word, which kernel mode maps to
\* themselves.
AlignedBytes == {AccessAligned + i : i \in 0..(AccessSize - 1)}

\* What the accesses do: the stores and the atomics clear the low bits of
\* the address, the loads use the address as given and read the bytes from
\* there on, which miss when they run past PHYSMEM_MAX.
AlignAsComputed ==
  lastMem.kind \in AlignKinds /\ lastMem.kmode =>
    IF lastMem.kind \in {"read16", "read32"}
      THEN IF lastMem.vaddr + AccessSize - 1 > PHYSMEM_MAX
             THEN lastMem.miss
             ELSE /\ ~lastMem.miss
                  /\ AccessTouched =
                       {lastMem.vaddr + i : i \in 0..(AccessSize - 1)}
      ELSE ~lastMem.miss /\ AccessTouched = AlignedBytes

\* C33: every 16-bit and 32-bit load, store and atomic with an unaligned
\* address accesses the bytes at the address with the low 1 or 2 bits
\* cleared, so a load and a store with one unaligned address touch the same
\* bytes.
C33_UnalignedRealigned ==
  lastMem.kind \in AlignKinds /\ lastMem.kmode =>
    /\ ~lastMem.miss
    /\ AccessTouched = AlignedBytes


\* The payload p grants the operation in mode km.
Grants(p, operation, km) ==
  HasBit(p, OperationBit(operation)) /\ (km \/ HasBit(p, TLB_U))

\* The step from one table to the next made room as write does: the key is
\* held afterwards with the payload, the other entries are as they were,
\* and exactly one of them is gone if the table was full without the key.
WroteInto(table, after, size, key, p) ==
  /\ key \in DOMAIN after
  /\ after[key] = p
  /\ \A k \in DOMAIN after \ {key} : k \in DOMAIN table /\ after[k] = table[k]
  /\ Cardinality(DOMAIN table \ (DOMAIN after)) =
       IF key \notin DOMAIN table /\ size = TlbCapacity THEN 1 ELSE 0

\* The eviction of the write of p for <<pid, vpn>>.
EvictsOne(pid, vpn, p) ==
  IF HasBit(p, TLB_G)
    THEN WroteInto(global_table, global_table', global_size, vpn, p)
    ELSE WroteInto(private_table, private_table', private_size,
                   <<pid, vpn>>, p)

\* After invalidate(pid, vpn) neither read nor access finds the page.
InvalidateMisses(pid, vpn) ==
  RandomCacheInvalidate(pid, vpn) =>
    /\ TlbRead(pid, vpn)' = {}
    /\ \A operation \in 0..2, km \in BOOLEAN :
         Access(pid, vpn, operation, km)' = {}

\* What read and access return after write(pid, vpn, p): the private entry
\* of <<pid, vpn>> comes first for read; access takes the private entry if
\* it grants the operation and the global entry of vpn otherwise.
WriteAsComputed ==
  \A pid \in TlbPids, vpn \in TlbVpns :
    /\ \A ra \in TlbPayloads :
         RandomCacheWrite(pid, vpn, TlbwMasked(ra)) /\ ~tlbPanic' =>
           LET p == TlbwMasked(ra)
               glob == HasBit(p, TLB_G)
               priv == TableGet(private_table, <<pid, vpn>>)
               other == TableGet(global_table, vpn)
           IN  /\ EvictsOne(pid, vpn, p)
               /\ TlbRead(pid, vpn)' = IF glob /\ priv # {} THEN priv ELSE {p}
               /\ \A operation \in 0..2, km \in BOOLEAN :
                    Access(pid, vpn, operation, km)' =
                      IF glob
                        THEN IF PermissionChain(priv, operation, km) # {}
                               THEN PermissionChain(priv, operation, km)
                               ELSE PermissionChain({p}, operation, km)
                        ELSE IF Grants(p, operation, km)
                               THEN {p - (p % 4096)}
                               ELSE PermissionChain(other, operation, km)
    /\ InvalidateMisses(pid, vpn)

TlbAsComputed == [][WriteAsComputed]_vars

\* The claim of C40 for one step.
WriteThenRead ==
  \A pid \in TlbPids, vpn \in TlbVpns :
    /\ \A ra \in TlbPayloads :
         RandomCacheWrite(pid, vpn, TlbwMasked(ra)) /\ ~tlbPanic' =>
           LET p == TlbwMasked(ra)
           IN  /\ EvictsOne(pid, vpn, p)
               /\ TlbRead(pid, vpn)' = {p}
               /\ \A operation \in 0..2, km \in BOOLEAN :
                    Access(pid, vpn, operation, km)' =
                      IF Grants(p, operation, km) THEN {p - (p % 4096)}
                                                  ELSE {}
    /\ InvalidateMisses(pid, vpn)

\* C40: for any prior contents, immediately after write(pid, vpn, p) a
\* read(pid, vpn) returns p and access(pid, vpn, op, kmode) hits with p's
\* page exactly when p grants op (and U in user mode), also when the other
\* table holds an entry for vpn; a write into a full table evicts exactly
\* one other entry and leaves the new one; after invalidate(pid, vpn) read
\* and access miss.
C40_WriteThenRead == [][WriteThenRead]_vars

(***************************************************************************)
(* Properties of a transfer from START to completion.                      *)
(***************************************************************************)
\* The transfer moved, word by word, the bytes the registers named at
\* START, in the direction CTRL had at START; x.len bytes in all, and the
\* destination now holds the source.
MovedAsStarted(x) ==
  /\ Len(x.moves) = x.len \div SD_DMA_BYTES_PER_TICK
  /\ \A k \in 1..Len(x.moves) :
       LET lo == SD_DMA_BYTES_PER_TICK * (k - 1)
       IN  IF x.dir
             THEN /\ x.moves[k].ram = {}
                  /\ x.moves[k].sto = {x.off + lo + i : i \in 0..3}
             ELSE /\ x.moves[k].sto = {}
                  /\ x.moves[k].ram = {x.mem + lo + i : i \in 0..3}
  /\ \A i \in 0..(x.len - 1) :
       MemByte(sdStorage, x.off + i) = MemByte(sdRam, x.mem + i)

\* One word every ticks_per_word ticks, the first at the first tick.
PacedAsStarted(x) ==
  \A k \in 1..Len(x.moves) :
    x.moves[k].tick = 1 + (k - 1) * sd.dma_ticks_per_word

\* BUSY cleared, DONE set, the interrupt raised iff IRQ_EN was set, and
\* nothing moved by a later tick.
EndedAsStarted(x) ==
  /\ ~HasBit(x.statusAtEnd, SD_DMA_STATUS_BUSY)
  /\ HasBit(x.statusAtEnd, SD_DMA_STATUS_DONE)
  /\ x.irqAfter = (x.irqBefore \/ x.irq)
  /\ ~x.lateMoves

\* While a launched transfer is under way the engine is running, and so
\* far it has moved the leading words of the transfer.
UnderWay(x) ==
  /\ sd.dma_active
  /\ HasBit(sd.dma_status, SD_DMA_STATUS_BUSY)
  /\ Len(x.moves) < x.len \div SD_DMA_BYTES_PER_TICK

\* A first transfer no register write interfered with.
Undisturbed(x) == x.starts = 1 /\ x.touched = {}

TransferSafe ==
  /\ xfer.phase = "active" /\ Undisturbed(xfer) =>
       UnderWay(xfer) /\ PacedAsStarted(xfer)
  /\ xfer.phase = "done" /\ Undisturbed(xfer) =>
       /\ MovedAsStarted(xfer)
       /\ PacedAsStarted(xfer)
       /\ EndedAsStarted(xfer)

\* C34: after START is written with the engine idle and L = LEN & ~3 > 0,
\* ticks complete the transfer: L bytes are moved, a word of 4 bytes every
\* ticks_per_word ticks from the first tick on, between consecutive RAM
\* addresses from MEM_ADDR & ~3 and consecutive card bytes from
\* SD_BLOCK * 512; then BUSY is clear, DONE is set, the interrupt is raised
\* iff IRQ_EN was set, and later ticks move nothing.
C34_TransferCompletes ==
  /\ []TransferSafe
  /\ (xfer.phase = "active") ~> (xfer.phase = "done")

\* A two-word transfer from the card, paced at two ticks a word and with
\* IRQ_EN, has completed and raised the interrupt.
C34_Witness ==
  /\ xfer.phase = "done"
  /\ Undisturbed(xfer)
  /\ xfer.len = 8
  /\ xfer.irq
  /\ sdIrq
  /\ sd.dma_ticks_per_word = 2
  /\ xfer.ticks = 3

(***************************************************************************)
(* Register writes while a transfer is in flight.                          *)
(***************************************************************************)
\* Writes of MEM_ADDR, SD_BLOCK and LEN in flight leave the transfer as it
\* was launched: start_dma copied them into the cursors.
ProgramWritesIgnored ==
  /\ xfer.phase = "done"
  /\ xfer.starts = 1
  /\ "CTRL" \notin xfer.touched
  => MovedAsStarted(xfer) /\ PacedAsStarted(xfer)

\* C37: writes of MEM_ADDR, SD_BLOCK, LEN or CTRL made while a transfer is
\* in flight change neither the bytes it moves nor its direction: both are
\* those of the registers at the START that launched it.
C37_InFlightWritesIgnored ==
  xfer.phase = "done" /\ xfer.starts = 1 => MovedAsStarted(xfer)

(***************************************************************************)
(* Properties of the bus with its locks.                                   *)
(***************************************************************************)
\* The threads that hold a lock.
Holders(l) == (IF locks[l].w = "none" THEN {} ELSE {locks[l].w}) \cup locks[l].r

\* The lock a thread is waiting for, if any.
Blocked(t) ==
  /\ thr[t].plan # <<>>
  /\ Head(thr[t].plan)[1] = "lock"
  /\ ~CanTake(locks, Head(thr[t].plan)[2], Head(thr[t].plan)[3])

\* No set of threads waits on locks held within the set.
NoDeadlock ==
  \A S \in (SUBSET LockThreads) \ {{}} :
    ~ \A t \in S : Blocked(t) /\ Holders(Head(thr[t].plan)[2]) \subseteq S

\* Locks are taken in one order: pit_countdown, ram, then a device's lock,
\* then pending_interrupt; a thread never holds two locks of the same rank.
LockRank(l) ==
  CASE l = "pit_countdown" -> 0
    [] l = "ram" -> 1
    [] l \in {"sd_card", "pit"} -> 2
    [] l = "pending_interrupt" -> 3

HeldBy(t) == {l \in LockNames : t \in Holders(l)}

LockOrder ==
  \A t \in LockThreads :
    thr[t].plan # <<>> /\ Head(thr[t].plan)[1] = "lock" =>
      \A l \in HeldBy(t) : LockRank(l) < LockRank(Head(thr[t].plan)[2])

\* C39: the bus never deadlocks: no set of threads wait on each other's
\* locks, and under fair scheduling every call into Memory returns, so
\* that every lock it waits for on the way is acquired.
C39_NoDeadlock ==
  /\ [](NoDeadlock /\ LockOrder)
  /\ \A t \in LockThreads : (thr[t] # NoCall) ~> (thr[t] = NoCall)

\* Core 0 is writing a register of the engine and holds ram and the
\* engine; the device thread, in a tick, waits for the engine and core 1,
\* reading STATUS, waits for ram.
C39_Witness ==
  /\ HeldBy("core0") = {"ram", "sd_card"}
  /\ Blocked("dev")
  /\ Head(thr["dev"].plan) = Lock("sd_card", "w")
  /\ Blocked("core1")
  /\ Head(thr["core1"].plan) = Lock("ram", "w")

\* C38: whenever a core reads STATUS with DONE set and BUSY clear after a
\* transfer, every byte of the transfer is already at its destination: in
\* RAM, where a load by that core finds it, or on the card.
C38_DoneMeansVisible ==
  SawDone(seen.status) /\ seen.launched =>
    /\ seen.landed
    /\ seen.loaded # <<>> /\ ~seen.dir => seen.loaded = seen.source
====
